---- MODULE Spec2Model ----
(***************************************************************************)
(* Menu interaction state machine of the egui-desktop title bar            *)
(* (src/src/menu/api.rs), driven frame by frame from                       *)
(* src/src/titlebar/render_bar.rs.                                         *)
(*                                                                         *)
(* One frame is four steps, in the order the code runs them:               *)
(*   CheckKeyboardShortcuts, HandleKeyboardNavigation (both called at the  *)
(*   top of render_menu_items), RenderMenuItems (the menu bar itself) and  *)
(*   RenderOpenSubmenu (the overlay).                                      *)
(*                                                                         *)
(* Further specifications over the same module: SpecEdge (the frame loop   *)
(* on trees without entries, without sub-items and without callbacks),     *)
(* SpecInstances (two title bars sharing the click counter), SpecViewports *)
(* and SpecOnce (src/src/utils/rounded_corners.rs).                        *)
(***************************************************************************)
EXTENDS Integers, Sequences, FiniteSets, TLC

\* ------------------------------------------------------------------ bounds
\* Largest value the global click counter is driven to.
MaxClicks == 2
\* Largest number of navigation keys pressed in one frame.
MaxKeys == 1
\* Largest top-level index from which ArrowRight is still pressed.
MaxSelected == 3
\* Largest number of click-opens two title bars make between them.
MaxOpens == 3
\* Largest number of native windows created, and of native apply calls
\* counted for one viewport.
MaxWindows == 2
MaxApplies == 2
\* Number of threads that call apply_rounded_corners, and the largest number
\* of calls one of them makes.
NumThreads == 3
MaxCalls == 2

\* --------------------------------------------------------- Option<usize>
None == <<>>
Some(x) == <<x>>
IsSome(o) == o /= <<>>
Unwrap(o) == o[1]

\* Vec::get with the code's 0-based index
VecGet(v, i) == IF i >= 0 /\ i < Len(v) THEN Some(v[i + 1]) ELSE None
\* HashMap<usize, usize>
MapGet(m, k) == IF k \in DOMAIN m THEN Some(m[k]) ELSE None
MapInsert(m, k, v) == [x \in (DOMAIN m) \cup {k} |-> IF x = k THEN v ELSE m[x]]
MapRemove(m, k) == [x \in (DOMAIN m) \ {k} |-> m[x]]
EmptyMap == [x \in {} |-> 0]

\* ------------------------------------------------------------------ usize
\* usize::MAX as the model holds it: the largest integer the model checker
\* represents.  Every index and every count of the model stays far below
\* it, as it stays far below 2^64 - 1 in the program.
usize_MAX == 2147483647
\* `a - b` on usize in a build without overflow checks: the difference
\* wraps around.  The only subtrahend the code uses is 1, so a wrapped
\* difference is usize::MAX.
wrapping_sub(a, b) == IF a >= b THEN a - b ELSE usize_MAX - (b - a) + 1
\* `a - b` on usize in a build with overflow checks panics in this case.
sub_overflows(a, b) == a < b

\* ------------------------------------------------------------- menu tree
\* SubMenuItem: enabled, shortcut, callback, separator_after, children.
Leaf(en, sc, cb) ==
  [enabled |-> en, shortcut |-> sc, callback |-> cb,
   separator_after |-> FALSE, children |-> <<>>]
Parent(en, cb, ch) ==
  [enabled |-> en, shortcut |-> None, callback |-> cb,
   separator_after |-> FALSE, children |-> ch]
\* MenuItem: label, subitems, enabled.
Menu(en, items) == [enabled |-> en, subitems |-> items]

\* The tree of the spec's keyboard scenario:
\*   File -> New (leaf, Ctrl+N), Recent -> (A.txt, B.txt), Exit (disabled),
\* with a shortcut of its own on A.txt.
TreeFile ==
  [menu_items |-> <<>>,
   menu_items_with_submenus |->
     << Menu(TRUE,
          << Leaf(TRUE, Some("Ctrl+N"), TRUE),
             Parent(TRUE, FALSE,
               << Leaf(TRUE, Some("Ctrl+A"), TRUE), Leaf(TRUE, None, TRUE) >>),
             Leaf(FALSE, Some("Ctrl+Q"), TRUE) >>) >>]

\* Two simple entries (one without a callback) before a disabled submenu entry.
TreeMixed ==
  [menu_items |-> << [callback |-> TRUE], [callback |-> FALSE] >>,
   menu_items_with_submenus |->
     << Menu(FALSE, << Leaf(TRUE, None, TRUE), Leaf(TRUE, None, FALSE) >>) >>]

\* First sub-item has children (and a callback of its own); one of its
\* children has children again; a disabled sub-item with children; a leaf;
\* and a second submenu.
TreeDeep ==
  [menu_items |-> <<>>,
   menu_items_with_submenus |->
     << Menu(TRUE,
          << Parent(TRUE, TRUE,
               << Parent(TRUE, TRUE, << Leaf(TRUE, None, TRUE) >>),
                  Leaf(FALSE, None, TRUE) >>),
             Parent(FALSE, FALSE, << Leaf(TRUE, None, TRUE) >>),
             Leaf(TRUE, None, TRUE) >>),
        Menu(TRUE, << Leaf(TRUE, None, TRUE) >>) >>]

Trees == {TreeFile, TreeMixed, TreeDeep}

\* A title bar to which no menu was added.
TreeEmpty == [menu_items |-> <<>>, menu_items_with_submenus |-> <<>>]

\* A simple entry, a submenu entry without sub-items and a submenu entry
\* with one.
TreeHollow ==
  [menu_items |-> << [callback |-> TRUE] >>,
   menu_items_with_submenus |->
     << Menu(TRUE, <<>>), Menu(TRUE, << Leaf(TRUE, None, TRUE) >>) >>]

\* Enabled leaves without a callback, at depth 1 and at depth 2, next to
\* leaves that have one.
TreeQuiet ==
  [menu_items |-> <<>>,
   menu_items_with_submenus |->
     << Menu(TRUE,
          << Leaf(TRUE, None, FALSE),
             Parent(TRUE, FALSE,
               << Leaf(TRUE, None, FALSE), Leaf(TRUE, None, TRUE) >>),
             Leaf(TRUE, None, TRUE) >>) >>]

EdgeTrees == {TreeEmpty, TreeHollow, TreeQuiet}

\* -------------------------------------------------------------- geometry
\* Height of the title bar strip that handle_keyboard_navigation and
\* render_open_submenu treat as "the menu bar" (0,0)-(width,32).
TitleBarHeight == 32
\* Height of a top-level entry.
menu_height == 28
\* Horizontal padding added to a top-level label.
LabelPadding == 16
\* Height of a submenu row.
item_height == 24
\* Minimum width of a submenu panel.
MinPanelWidth == 120
\* The hover corridor right of a row with children.
corridor_width == 10
CorridorPad == 6
\* The rectangle render_open_submenu assumes for the open submenu.
SubmenuRectW == 200
SubmenuRectH == 100
\* Values the layout and the font service supply: the laid-out text width
\* of a label, the origin of the menu bar and the width of the window.
LabelTextWidth == 40
BarMinX == 40
BarMinY == 2
ScreenW == 800

Pt(x, y) == [x |-> x, y |-> y]
\* Rect::from_min_size
RectMinSize(x, y, w, h) == [x0 |-> x, y0 |-> y, x1 |-> x + w, y1 |-> y + h]
\* Rect::contains: both edges inclusive.
Contains(r, p) == r.x0 <= p.x /\ p.x <= r.x1 /\ r.y0 <= p.y /\ p.y <= r.y1

\* The width of one top-level entry: laid-out label plus padding.
label_width == LabelTextWidth + LabelPadding
\* menu_positions as render_menu_items rebuilds it: the x of every entry,
\* simple entries first.
MenuPositions(menu) ==
  [g \in 1..(Len(menu.menu_items) + Len(menu.menu_items_with_submenus)) |->
     BarMinX + (g - 1) * label_width]
\* The rectangle of top-level entry g (0-based, simple entries first).
menu_rect(g) == RectMinSize(BarMinX + g * label_width, BarMinY, label_width, menu_height)
\* The strip both outside-click checks call menu_bar_rect.
menu_bar_rect == RectMinSize(0, 0, ScreenW, TitleBarHeight)

\* ---------------------------------------------------------------- inputs
NavKeys == {"Alt", "CtrlF2", "Escape", "ArrowLeft", "ArrowRight",
            "ArrowUp", "ArrowDown", "Enter", "Space"}
KeySets == {K \in SUBSET NavKeys : Cardinality(K) <= MaxKeys}

\* ------------------------------------------------------ TitleBar's fields
\* The fields of TitleBar the menu code reads and writes.
NewTitleBar ==
  [keyboard_navigation_active |-> FALSE,
   selected_menu_index |-> None,
   selected_submenu_index |-> None,
   open_submenu |-> None,
   submenu_selections |-> EmptyMap,
   child_submenu_selections |-> EmptyMap,
   force_open_child_subitem |-> None,
   submenu_just_opened_frame |-> FALSE,
   last_click_id |-> 0,
   menu_positions |-> <<>>]

\* A callback invocation: which step made it ("shortcut", "nav", "click"),
\* whether the item is a simple top-level entry, and the item's path
\* (<<k>> for simple entry k; <<m, i, ...>> for the item below submenu m).
Call(by, simple, path) == [by |-> by, simple |-> simple, path |-> path]
\* `callback();` behind `if let Some(callback)`.
Invoke(has_callback, by, simple, path) ==
  IF has_callback THEN << Call(by, simple, path) >> ELSE <<>>

\* ------------------------------------------------ check_keyboard_shortcuts
RECURSIVE ShortcutCalls(_, _, _, _)
\* The inner loop over the sub-items of submenu m, from row i on.
ShortcutCalls(menu, inp, m, i) ==
  LET subitems == menu.menu_items_with_submenus[m + 1].subitems IN
  IF i >= Len(subitems) THEN <<>>
  ELSE LET subitem == subitems[i + 1]
           here == IF IsSome(subitem.shortcut)
                      /\ subitem.shortcut = inp.shortcut /\ subitem.enabled
                   THEN Invoke(subitem.callback, "shortcut", FALSE, <<m, i>>)
                   ELSE <<>>
       IN here \o ShortcutCalls(menu, inp, m, i + 1)

RECURSIVE check_keyboard_shortcuts(_, _, _)
\* The outer loop over menu_items_with_submenus, from submenu m on: the
\* callbacks invoked, in order.
check_keyboard_shortcuts(menu, inp, m) ==
  IF m >= Len(menu.menu_items_with_submenus) THEN <<>>
  ELSE ShortcutCalls(menu, inp, m, 0) \o check_keyboard_shortcuts(menu, inp, m + 1)

\* ---------------------------------------------- handle_keyboard_navigation
Pressed(inp, key) == key \in inp.keys
\* Alt held, or Ctrl+F2 pressed.
should_activate(inp) == Pressed(inp, "Alt") \/ Pressed(inp, "CtrlF2")
EnterOrSpace(inp) == Pressed(inp, "Enter") \/ Pressed(inp, "Space")
\* interact_pos().unwrap_or_default()
click_pos(inp) == IF IsSome(inp.ptr) THEN Unwrap(inp.ptr) ELSE Pt(0, 0)

\* Lines 96-103.
Activate(s, inp) ==
  IF should_activate(inp) /\ ~s.keyboard_navigation_active
  THEN [s EXCEPT !.keyboard_navigation_active = TRUE,
                 !.selected_menu_index = Some(0),
                 !.selected_submenu_index = None]
  ELSE s

\* Escape as it would be if it left the open submenu alone.
OnEscape_KeepOpen(s) ==
  [s EXCEPT !.keyboard_navigation_active = FALSE,
            !.selected_menu_index = None,
            !.selected_submenu_index = None]

\* Lines 108-114: what Escape leaves.
OnEscape(s) ==
  [s EXCEPT !.keyboard_navigation_active = FALSE,
            !.selected_menu_index = None,
            !.selected_submenu_index = None,
            !.open_submenu = None]

\* The outside click as it would be if it closed only the top-level submenu.
NavOutsideClick_KeepChild(s, inp) ==
  IF inp.click /\ ~Contains(menu_bar_rect, click_pos(inp)) /\ IsSome(s.open_submenu)
  THEN [s EXCEPT !.open_submenu = None]
  ELSE s

\* The outside click as it would be if it also left keyboard mode.
NavOutsideClick_LeaveKeyboardMode(s, inp) ==
  IF inp.click /\ ~Contains(menu_bar_rect, click_pos(inp)) /\ IsSome(s.open_submenu)
  THEN [s EXCEPT !.open_submenu = None,
                 !.force_open_child_subitem = None,
                 !.child_submenu_selections = EmptyMap,
                 !.keyboard_navigation_active = FALSE]
  ELSE s

\* Lines 116-131: a primary click outside the menu bar strip closes the menus.
NavOutsideClick(s, inp) ==
  IF inp.click /\ ~Contains(menu_bar_rect, click_pos(inp)) /\ IsSome(s.open_submenu)
  THEN [s EXCEPT !.open_submenu = None,
                 !.force_open_child_subitem = None,
                 !.child_submenu_selections = EmptyMap]
  ELSE s

\* Lines 135-153.
current_highlighted_has_sidemenu(menu, s) ==
  /\ IsSome(s.open_submenu)
  /\ LET o == Unwrap(s.open_submenu)
         menu_item == VecGet(menu.menu_items_with_submenus, o)
         selected_index == MapGet(s.submenu_selections, o)
     IN /\ IsSome(menu_item)
        /\ IsSome(selected_index)
        /\ LET selected_item == VecGet(Unwrap(menu_item).subitems, Unwrap(selected_index))
           IN IsSome(selected_item) /\ Unwrap(selected_item).children /= <<>>

\* Lines 156-164.
TopArrowLeft(s, inp) ==
  IF Pressed(inp, "ArrowLeft") /\ IsSome(s.selected_menu_index)
     /\ Unwrap(s.selected_menu_index) > 0
  THEN [s EXCEPT !.selected_menu_index = Some(Unwrap(s.selected_menu_index) - 1),
                 !.open_submenu = None,
                 !.selected_submenu_index = None]
  ELSE s

\* ArrowRight at the top level as it would be if it wrapped around.
TopArrowRight_Wrap(menu, s, inp) ==
  LET total_menus == Len(menu.menu_items) + Len(menu.menu_items_with_submenus) IN
  IF Pressed(inp, "ArrowRight") /\ IsSome(s.selected_menu_index)
  THEN [s EXCEPT !.selected_menu_index =
                    Some((Unwrap(s.selected_menu_index) + 1) % total_menus),
                 !.open_submenu = None,
                 !.selected_submenu_index = None]
  ELSE s

\* Lines 166-175, in a build without overflow checks.
TopArrowRight(menu, s, inp) ==
  LET total_menus == Len(menu.menu_items) + Len(menu.menu_items_with_submenus) IN
  IF Pressed(inp, "ArrowRight") /\ IsSome(s.selected_menu_index)
     /\ Unwrap(s.selected_menu_index) < wrapping_sub(total_menus, 1)
  THEN [s EXCEPT !.selected_menu_index = Some(Unwrap(s.selected_menu_index) + 1),
                 !.open_submenu = None,
                 !.selected_submenu_index = None]
  ELSE s

\* Lines 166-168: `total_menus - 1` is evaluated with total_menus = 0.
TopArrowRightOverflows(menu, s, inp) ==
  LET total_menus == Len(menu.menu_items) + Len(menu.menu_items_with_submenus) IN
  /\ Pressed(inp, "ArrowRight")
  /\ IsSome(s.selected_menu_index)
  /\ sub_overflows(total_menus, 1)

\* The top-level arrows as they would be if they were handled only while no
\* submenu is open.
TopLevelArrows_ClosedOnly(menu, s, inp) ==
  IF IsSome(s.open_submenu) THEN s
  ELSE TopArrowRight(menu, TopArrowLeft(s, inp), inp)

\* Lines 155-176.
TopLevelArrows(menu, s, inp) ==
  IF current_highlighted_has_sidemenu(menu, s) THEN s
  ELSE TopArrowRight(menu, TopArrowLeft(s, inp), inp)

\* The outcome of a block of the handler: the fields after it, the callbacks
\* it invoked, and whether it ended the handler with `return`.
Outcome(st, fired, ret) == [st |-> st, fired |-> fired, ret |-> ret]

\* Priority 1 as it would be if the menus were left open after the action.
Priority1_KeepOpen(menu, s) ==
  LET o == Unwrap(s.open_submenu)
      child_submenu_index == MapGet(s.child_submenu_selections, o)
      menu_item == VecGet(menu.menu_items_with_submenus, o)
      child_index == s.force_open_child_subitem
      child_item == VecGet(Unwrap(menu_item).subitems, Unwrap(child_index))
      child_subitem == VecGet(Unwrap(child_item).children, Unwrap(child_submenu_index))
  IN
  IF /\ IsSome(s.open_submenu)
     /\ IsSome(child_submenu_index)
     /\ IsSome(menu_item)
     /\ IsSome(child_index)
     /\ IsSome(child_item)
     /\ IsSome(child_subitem)
     /\ Unwrap(child_subitem).enabled
  THEN Outcome(s,
               Invoke(Unwrap(child_subitem).callback, "nav", FALSE,
                      <<o, Unwrap(child_index), Unwrap(child_submenu_index)>>),
               TRUE)
  ELSE Outcome(s, <<>>, FALSE)

\* Lines 182-211, priority 1: the selected row of the open child side menu.
Priority1(menu, s) ==
  LET o == Unwrap(s.open_submenu)
      child_submenu_index == MapGet(s.child_submenu_selections, o)
      menu_item == VecGet(menu.menu_items_with_submenus, o)
      child_index == s.force_open_child_subitem
      child_item == VecGet(Unwrap(menu_item).subitems, Unwrap(child_index))
      child_subitem == VecGet(Unwrap(child_item).children, Unwrap(child_submenu_index))
  IN
  IF /\ IsSome(s.open_submenu)
     /\ IsSome(child_submenu_index)
     /\ IsSome(menu_item)
     /\ IsSome(child_index)
     /\ IsSome(child_item)
     /\ IsSome(child_subitem)
     /\ Unwrap(child_subitem).enabled
  THEN Outcome([s EXCEPT !.open_submenu = None,
                         !.selected_submenu_index = None,
                         !.force_open_child_subitem = None,
                         !.child_submenu_selections = EmptyMap],
               Invoke(Unwrap(child_subitem).callback, "nav", FALSE,
                      <<o, Unwrap(child_index), Unwrap(child_submenu_index)>>),
               TRUE)
  ELSE Outcome(s, <<>>, FALSE)

\* Priority 2 as it would be without the test of the row's enabled flag.
Priority2_IgnoreEnabled(menu, s) ==
  LET o == Unwrap(s.open_submenu)
      submenu_index == MapGet(s.submenu_selections, o)
      menu_item == VecGet(menu.menu_items_with_submenus, o)
      subitem == VecGet(Unwrap(menu_item).subitems, Unwrap(submenu_index))
  IN
  IF ~IsSome(s.open_submenu) THEN Outcome(s, <<>>, FALSE)
  ELSE IF s.submenu_just_opened_frame
  THEN Outcome([s EXCEPT !.submenu_just_opened_frame = FALSE], <<>>, TRUE)
  ELSE IF /\ IsSome(submenu_index)
          /\ IsSome(menu_item)
          /\ IsSome(subitem)
          /\ Unwrap(subitem).children = <<>>
  THEN Outcome([s EXCEPT !.open_submenu = None,
                         !.submenu_selections = MapRemove(s.submenu_selections, o)],
               Invoke(Unwrap(subitem).callback, "nav", FALSE, <<o, Unwrap(submenu_index)>>),
               TRUE)
  ELSE Outcome(s, <<>>, FALSE)

\* Priority 2 as it would be if a row without a callback left the submenu
\* open.
Priority2_CloseOnCallback(menu, s) ==
  LET o == Unwrap(s.open_submenu)
      submenu_index == MapGet(s.submenu_selections, o)
      menu_item == VecGet(menu.menu_items_with_submenus, o)
      subitem == VecGet(Unwrap(menu_item).subitems, Unwrap(submenu_index))
  IN
  IF ~IsSome(s.open_submenu) THEN Outcome(s, <<>>, FALSE)
  ELSE IF s.submenu_just_opened_frame
  THEN Outcome([s EXCEPT !.submenu_just_opened_frame = FALSE], <<>>, TRUE)
  ELSE IF /\ IsSome(submenu_index)
          /\ IsSome(menu_item)
          /\ IsSome(subitem)
          /\ Unwrap(subitem).enabled
          /\ Unwrap(subitem).children = <<>>
  THEN IF Unwrap(subitem).callback
       THEN Outcome([s EXCEPT !.open_submenu = None,
                              !.submenu_selections = MapRemove(s.submenu_selections, o)],
                    Invoke(TRUE, "nav", FALSE, <<o, Unwrap(submenu_index)>>),
                    TRUE)
       ELSE Outcome(s, <<>>, TRUE)
  ELSE Outcome(s, <<>>, FALSE)

\* Lines 213-238, priority 2: the selected row of the open submenu.
Priority2(menu, s) ==
  LET o == Unwrap(s.open_submenu)
      submenu_index == MapGet(s.submenu_selections, o)
      menu_item == VecGet(menu.menu_items_with_submenus, o)
      subitem == VecGet(Unwrap(menu_item).subitems, Unwrap(submenu_index))
  IN
  IF ~IsSome(s.open_submenu) THEN Outcome(s, <<>>, FALSE)
  ELSE IF s.submenu_just_opened_frame
  THEN Outcome([s EXCEPT !.submenu_just_opened_frame = FALSE], <<>>, TRUE)
  ELSE IF /\ IsSome(submenu_index)
          /\ IsSome(menu_item)
          /\ IsSome(subitem)
          /\ Unwrap(subitem).enabled
          /\ Unwrap(subitem).children = <<>>
  THEN Outcome([s EXCEPT !.open_submenu = None,
                         !.submenu_selections = MapRemove(s.submenu_selections, o)],
               Invoke(Unwrap(subitem).callback, "nav", FALSE, <<o, Unwrap(submenu_index)>>),
               TRUE)
  ELSE Outcome(s, <<>>, FALSE)

\* Opening a submenu as it would be if it never forced a child side menu open.
AutoOpenChild_Never(s, menu_item) == None

\* Lines 260-274: which child side menu opening a submenu forces open.
AutoOpenChild(s, menu_item) ==
  IF s.keyboard_navigation_active
  THEN LET first_item == VecGet(menu_item.subitems, 0) IN
       IF IsSome(first_item) /\ Unwrap(first_item).children /= <<>>
       THEN Some(0) ELSE None
  ELSE None

\* Priority 3 as it would be if activating a simple entry left keyboard mode.
Priority3_Deactivate(menu, s) ==
  LET menu_index == Unwrap(s.selected_menu_index)
      total_simple_menus == Len(menu.menu_items)
      submenu_index == menu_index - total_simple_menus
      menu_item == VecGet(menu.menu_items_with_submenus, submenu_index)
  IN
  IF ~IsSome(s.selected_menu_index) THEN Outcome(s, <<>>, FALSE)
  ELSE IF menu_index < total_simple_menus
  THEN Outcome([s EXCEPT !.keyboard_navigation_active = FALSE,
                         !.selected_menu_index = None],
               Invoke(menu.menu_items[menu_index + 1].callback, "nav", TRUE,
                      <<menu_index>>), FALSE)
  ELSE IF IsSome(menu_item) /\ Unwrap(menu_item).subitems /= <<>>
  THEN Outcome([s EXCEPT !.open_submenu = Some(submenu_index),
                         !.submenu_selections =
                            MapInsert(s.submenu_selections, submenu_index, 0),
                         !.submenu_just_opened_frame = TRUE,
                         !.force_open_child_subitem = AutoOpenChild(s, Unwrap(menu_item))],
               <<>>, FALSE)
  ELSE Outcome(s, <<>>, FALSE)

\* Priority 3 as it would be if opening a submenu also activated its first
\* row in the same frame.
Priority3_OpenAndActivate(menu, s) ==
  LET menu_index == Unwrap(s.selected_menu_index)
      total_simple_menus == Len(menu.menu_items)
      submenu_index == menu_index - total_simple_menus
      menu_item == VecGet(menu.menu_items_with_submenus, submenu_index)
  IN
  IF ~IsSome(s.selected_menu_index) THEN Outcome(s, <<>>, FALSE)
  ELSE IF menu_index < total_simple_menus
  THEN Outcome(s, Invoke(menu.menu_items[menu_index + 1].callback, "nav", TRUE,
                         <<menu_index>>), FALSE)
  ELSE IF IsSome(menu_item) /\ Unwrap(menu_item).subitems /= <<>>
  THEN Outcome([s EXCEPT !.open_submenu = Some(submenu_index),
                         !.submenu_selections =
                            MapInsert(s.submenu_selections, submenu_index, 0),
                         !.submenu_just_opened_frame = TRUE,
                         !.force_open_child_subitem = AutoOpenChild(s, Unwrap(menu_item))],
               Invoke(Unwrap(menu_item).subitems[1].callback, "nav", FALSE,
                      <<submenu_index, 0>>),
               FALSE)
  ELSE Outcome(s, <<>>, FALSE)

\* Lines 240-278, priority 3: the selected top-level entry.
Priority3(menu, s) ==
  LET menu_index == Unwrap(s.selected_menu_index)
      total_simple_menus == Len(menu.menu_items)
      submenu_index == menu_index - total_simple_menus
      menu_item == VecGet(menu.menu_items_with_submenus, submenu_index)
  IN
  IF ~IsSome(s.selected_menu_index) THEN Outcome(s, <<>>, FALSE)
  ELSE IF menu_index < total_simple_menus
  THEN Outcome(s, Invoke(menu.menu_items[menu_index + 1].callback, "nav", TRUE,
                         <<menu_index>>), FALSE)
  ELSE IF IsSome(menu_item) /\ Unwrap(menu_item).subitems /= <<>>
  THEN Outcome([s EXCEPT !.open_submenu = Some(submenu_index),
                         !.submenu_selections =
                            MapInsert(s.submenu_selections, submenu_index, 0),
                         !.submenu_just_opened_frame = TRUE,
                         !.force_open_child_subitem = AutoOpenChild(s, Unwrap(menu_item))],
               <<>>, FALSE)
  ELSE Outcome(s, <<>>, FALSE)

\* Lines 179-279: Enter / Space, the three priorities in order.
EnterSpace(menu, s, inp) ==
  IF ~EnterOrSpace(inp) THEN Outcome(s, <<>>, FALSE)
  ELSE LET p1 == Priority1(menu, s) IN
       IF p1.ret THEN p1
       ELSE LET p2 == Priority2(menu, s) IN
            IF p2.ret THEN p2
            ELSE Priority3(menu, s)

\* Lines 286-312: Up / Down in the open submenu o, only while no child side
\* menu is forced open or selected.
MainUpDown(s, inp, o, menu_item) ==
  IF ~IsSome(s.force_open_child_subitem) /\ o \notin DOMAIN s.child_submenu_selections
  THEN LET up == IF Pressed(inp, "ArrowUp") /\ o \in DOMAIN s.submenu_selections
                    /\ s.submenu_selections[o] > 0
                 THEN [s EXCEPT !.submenu_selections =
                         MapInsert(s.submenu_selections, o, s.submenu_selections[o] - 1)]
                 ELSE s
       IN IF Pressed(inp, "ArrowDown") /\ o \in DOMAIN up.submenu_selections
             /\ up.submenu_selections[o] < wrapping_sub(Len(menu_item.subitems), 1)
          THEN [up EXCEPT !.submenu_selections =
                  MapInsert(up.submenu_selections, o, up.submenu_selections[o] + 1)]
          ELSE up
  ELSE s

\* Lines 302-306: `menu_item.subitems.len() - 1` is evaluated with no
\* sub-items.
MainDownOverflows(s, inp, o, menu_item) ==
  /\ ~IsSome(s.force_open_child_subitem)
  /\ o \notin DOMAIN s.child_submenu_selections
  /\ Pressed(inp, "ArrowDown")
  /\ o \in DOMAIN s.submenu_selections
  /\ sub_overflows(Len(menu_item.subitems), 1)

\* Lines 314-330: ArrowRight on a row with children forces its child open.
SubArrowRight(s, inp, o, menu_item) ==
  LET current_submenu_index == MapGet(s.submenu_selections, o)
      current_item == VecGet(menu_item.subitems, Unwrap(current_submenu_index))
  IN
  IF /\ Pressed(inp, "ArrowRight")
     /\ IsSome(current_submenu_index)
     /\ IsSome(current_item)
     /\ Unwrap(current_item).children /= <<>>
  THEN [s EXCEPT !.force_open_child_subitem = current_submenu_index,
                 !.submenu_just_opened_frame = TRUE]
  ELSE s

\* Lines 332-349: ArrowLeft backs out one level.
SubArrowLeft(s, inp, o) ==
  IF ~Pressed(inp, "ArrowLeft") THEN s
  ELSE IF IsSome(s.force_open_child_subitem)
  THEN [s EXCEPT !.force_open_child_subitem = None,
                 !.child_submenu_selections = MapRemove(s.child_submenu_selections, o)]
  ELSE IF s.keyboard_navigation_active /\ o \in DOMAIN s.child_submenu_selections
  THEN [s EXCEPT !.child_submenu_selections = MapRemove(s.child_submenu_selections, o)]
  ELSE [s EXCEPT !.open_submenu = None,
                 !.submenu_selections = MapRemove(s.submenu_selections, o)]

\* Lines 353-368: the row whose child side menu takes Up / Down.
active_child_index(s, o, menu_item) ==
  IF ~IsSome(s.force_open_child_subitem) /\ ~s.keyboard_navigation_active
  THEN LET selected_index == MapGet(s.submenu_selections, o)
           selected_item == VecGet(menu_item.subitems, Unwrap(selected_index))
       IN IF IsSome(selected_index) /\ IsSome(selected_item)
             /\ Unwrap(selected_item).children /= <<>>
          THEN selected_index
          ELSE s.force_open_child_subitem
  ELSE s.force_open_child_subitem

\* Lines 370-409: the child selection is initialised to 0 and moved by
\* Up / Down.
ChildUpDown(s, inp, o, menu_item) ==
  LET child_index == active_child_index(s, o, menu_item)
      child_item == VecGet(menu_item.subitems, Unwrap(child_index))
  IN
  IF IsSome(child_index) /\ IsSome(child_item) /\ Unwrap(child_item).children /= <<>>
  THEN LET init == IF o \notin DOMAIN s.child_submenu_selections
                   THEN [s EXCEPT !.child_submenu_selections =
                           MapInsert(s.child_submenu_selections, o, 0)]
                   ELSE s
           up == IF Pressed(inp, "ArrowUp") /\ init.child_submenu_selections[o] > 0
                 THEN [init EXCEPT !.child_submenu_selections =
                         MapInsert(init.child_submenu_selections, o,
                                   init.child_submenu_selections[o] - 1)]
                 ELSE init
       IN IF Pressed(inp, "ArrowDown")
             /\ up.child_submenu_selections[o]
                  < wrapping_sub(Len(Unwrap(child_item).children), 1)
          THEN [up EXCEPT !.child_submenu_selections =
                  MapInsert(up.child_submenu_selections, o,
                            up.child_submenu_selections[o] + 1)]
          ELSE up
  ELSE s

\* Lines 370-399: `child_item.children.len() - 1` is evaluated with no
\* children.
ChildDownOverflows(s, inp, o, menu_item) ==
  LET child_index == active_child_index(s, o, menu_item)
      child_item == VecGet(menu_item.subitems, Unwrap(child_index))
  IN /\ IsSome(child_index)
     /\ IsSome(child_item)
     /\ Unwrap(child_item).children /= <<>>
     /\ Pressed(inp, "ArrowDown")
     /\ sub_overflows(Len(Unwrap(child_item).children), 1)

\* Lines 281-411: one of the two subtractions inside the open submenu
\* overflows.
SubmenuKeysOverflow(menu, s, inp) ==
  LET o == Unwrap(s.open_submenu)
      menu_item == VecGet(menu.menu_items_with_submenus, o)
  IN /\ IsSome(s.open_submenu)
     /\ IsSome(menu_item)
     /\ LET mi == Unwrap(menu_item)
            a == MainUpDown(s, inp, o, mi)
            b == SubArrowRight(a, inp, o, mi)
            c == SubArrowLeft(b, inp, o)
        IN MainDownOverflows(s, inp, o, mi) \/ ChildDownOverflows(c, inp, o, mi)

\* Lines 281-411: the keys handled inside the open submenu.  The submenu and
\* its item are bound once, before any of the keys is looked at.
SubmenuKeys(menu, s, inp) ==
  LET o == Unwrap(s.open_submenu)
      menu_item == VecGet(menu.menu_items_with_submenus, o)
  IN
  IF IsSome(s.open_submenu) /\ IsSome(menu_item)
  THEN LET mi == Unwrap(menu_item)
           a == MainUpDown(s, inp, o, mi)
           b == SubArrowRight(a, inp, o, mi)
           c == SubArrowLeft(b, inp, o)
       IN ChildUpDown(c, inp, o, mi)
  ELSE s

\* Lines 412-415.
ResetGuard(s) == [s EXCEPT !.submenu_just_opened_frame = FALSE]

\* handle_keyboard_navigation: the fields after the handler and the
\* callbacks it invoked.
handle_keyboard_navigation(menu, s, inp) ==
  LET s1 == Activate(s, inp) IN
  IF ~s1.keyboard_navigation_active THEN [st |-> s1, fired |-> <<>>]
  ELSE IF Pressed(inp, "Escape") THEN [st |-> OnEscape(s1), fired |-> <<>>]
  ELSE LET s2 == NavOutsideClick(s1, inp)
           s3 == TopLevelArrows(menu, s2, inp)
           e == EnterSpace(menu, s3, inp)
       IN IF e.ret THEN [st |-> e.st, fired |-> e.fired]
          ELSE [st |-> ResetGuard(SubmenuKeys(menu, e.st, inp)), fired |-> e.fired]

\* handle_keyboard_navigation reaches a `len - 1` whose len is 0 (lines 168,
\* 306, 399): a build with overflow checks panics there.
navigation_overflows(menu, s, inp) ==
  LET s1 == Activate(s, inp) IN
  /\ s1.keyboard_navigation_active
  /\ ~Pressed(inp, "Escape")
  /\ LET s2 == NavOutsideClick(s1, inp)
         s3 == TopLevelArrows(menu, s2, inp)
         e == EnterSpace(menu, s3, inp)
     IN \/ /\ ~current_highlighted_has_sidemenu(menu, s2)
           /\ TopArrowRightOverflows(menu, TopArrowLeft(s2, inp), inp)
        \/ /\ ~e.ret
           /\ SubmenuKeysOverflow(menu, e.st, inp)

\* ------------------------------------------- render_submenu_overlay_static
\* Lines 814-840: the panel is as wide as its widest row, at least
\* MinPanelWidth; the labels of the trees modelled are short, so every row
\* (label + shortcut + padding * 3 + 20) stays below the minimum.
max_width(subitems) == MinPanelWidth

\* The number of separators drawn above row i (lines 1085-1096: a separator
\* follows a row with separator_after that is not the last row).
SeparatorsBefore(subitems, i) ==
  Cardinality({k \in 1..i : subitems[k].separator_after /\ k - 1 < Len(subitems) - 1})

\* Lines 842-848.
total_height(subitems) ==
  item_height * Len(subitems)
    + Cardinality({k \in 1..Len(subitems) : subitems[k].separator_after})

\* Lines 851-863: the panel rectangle, moved left when it would leave the
\* window.
adjusted_rect(subitems, position) ==
  LET w == max_width(subitems)
      h == total_height(subitems)
  IN IF position.x + w > ScreenW
     THEN RectMinSize(ScreenW - w, position.y, w, h)
     ELSE RectMinSize(position.x, position.y, w, h)

\* Lines 882-885: the rectangle of row i (0-based) of a panel.
item_rect(subitems, position, i) ==
  LET r == adjusted_rect(subitems, position) IN
  RectMinSize(r.x0, r.y0 + item_height * i + SeparatorsBefore(subitems, i),
              r.x1 - r.x0, item_height)

\* response.hovered() of a widget with rectangle r.
Hovered(inp, r) == IsSome(inp.ptr) /\ Contains(r, Unwrap(inp.ptr))
\* response.clicked()
Clicked(inp, r) == inp.click /\ Hovered(inp, r)

\* The corridor as it would be without its vertical padding.
corridor_NoPad(r) ==
  [x0 |-> r.x1, y0 |-> r.y0, x1 |-> r.x1 + corridor_width, y1 |-> r.y1]

\* Lines 972-976.
corridor(r) ==
  [x0 |-> r.x1, y0 |-> r.y0 - CorridorPad,
   x1 |-> r.x1 + corridor_width, y1 |-> r.y1 + CorridorPad]

\* Lines 979-1026: the approximate rectangle of the child panel of a row
\* with rectangle r.
child_rect(subitem, r) ==
  LET w == max_width(subitem.children)
      h == total_height(subitem.children)
      shift == IF r.x1 + w > ScreenW THEN r.x1 + w - ScreenW ELSE 0
  IN [x0 |-> r.x1 - shift, y0 |-> r.y0, x1 |-> r.x1 + w - shift, y1 |-> r.y0 + h]

\* Lines 966-1032: hover justifies the child panel of this row.
open_child(subitem, r, inp) ==
  /\ subitem.enabled
  /\ subitem.children /= <<>>
  /\ \/ Hovered(inp, r)
     \/ /\ IsSome(inp.ptr)
        /\ \/ Contains(corridor(r), Unwrap(inp.ptr))
           \/ Contains(child_rect(subitem, r), Unwrap(inp.ptr))

\* The condition as it would be if hover did not open child panels while
\* keyboard mode is active.
ChildRendered_ForcedOnlyInKeyboard(subitem, r, inp, kna, force, i) ==
  IF kna THEN force = Some(i) ELSE open_child(subitem, r, inp)

\* Lines 1040-1042: the child panel of row i is drawn.
ChildRendered(subitem, r, inp, kna, force, i) ==
  open_child(subitem, r, inp) \/ (kna /\ force = Some(i))

\* What drawing a panel yields: whether an item was clicked, the callbacks
\* invoked, and the panels drawn (each named by the path of its parent row).
Drawn(clicked, fired, panels) ==
  [clicked |-> clicked, fired |-> fired, panels |-> panels]

RECURSIVE RenderRows(_, _, _, _, _, _, _)
\* Lines 881-1097, from row i on, of the panel of `subitems` at `position`;
\* `path` names the panel.  The recursive call at lines 1058-1074 passes no
\* forced-open item to the child panel.
RenderRows(subitems, position, inp, kna, force, path, i) ==
  IF i >= Len(subitems) THEN Drawn(FALSE, <<>>, {})
  ELSE
    LET subitem == subitems[i + 1]
        r == item_rect(subitems, position, i)
        activated == Clicked(inp, r) /\ subitem.enabled /\ subitem.children = <<>>
        own == IF activated
               THEN Invoke(subitem.callback, "click", FALSE, Append(path, i))
               ELSE <<>>
        child == IF ChildRendered(subitem, r, inp, kna, force, i)
                 THEN LET d == RenderRows(subitem.children, Pt(r.x1, r.y0), inp, kna,
                                          None, Append(path, i), 0)
                      IN Drawn(d.clicked, d.fired, d.panels \cup {Append(path, i)})
                 ELSE Drawn(FALSE, <<>>, {})
        rest == RenderRows(subitems, position, inp, kna, force, path, i + 1)
    IN Drawn(activated \/ child.clicked \/ rest.clicked,
             own \o child.fired \o rest.fired,
             child.panels \cup rest.panels)

\* render_submenu_overlay_static for the open submenu m.
render_submenu_overlay_static(menu_item, position, inp, kna, force, m) ==
  LET d == RenderRows(menu_item.subitems, position, inp, kna, force, <<m>>, 0)
  IN Drawn(d.clicked, d.fired, d.panels \cup {<<m>>})

\* ------------------------------------------------------- render_menu_items
RECURSIVE SimpleClicks(_, _, _)
\* Lines 476-544, from simple entry k on: a clicked entry invokes its callback.
SimpleClicks(menu, inp, k) ==
  IF k >= Len(menu.menu_items) THEN <<>>
  ELSE (IF Clicked(inp, menu_rect(k))
        THEN Invoke(menu.menu_items[k + 1].callback, "click", TRUE, <<k>>)
        ELSE <<>>)
       \o SimpleClicks(menu, inp, k + 1)

\* The click toggle as it would be if closing also advanced the counter.
ToggleSubmenu_BumpOnClose(c, index) ==
  IF c.st.open_submenu = Some(index)
  THEN [c EXCEPT !.st.open_submenu = None,
                 !.st.submenu_just_opened_frame = FALSE,
                 !.counter = c.counter + 1]
  ELSE [c EXCEPT !.st.open_submenu = Some(index),
                 !.st.submenu_just_opened_frame = TRUE,
                 !.st.last_click_id = c.counter,
                 !.counter = c.counter + 1]

\* Lines 592-604: a click on the entry of submenu `index` toggles it.  The
\* token kept is the value fetch_add returns.
ToggleSubmenu(c, index) ==
  IF c.st.open_submenu = Some(index)
  THEN [c EXCEPT !.st.open_submenu = None,
                 !.st.submenu_just_opened_frame = FALSE]
  ELSE [c EXCEPT !.st.open_submenu = Some(index),
                 !.st.submenu_just_opened_frame = TRUE,
                 !.st.last_click_id = c.counter,
                 !.counter = c.counter + 1]

RECURSIVE SubmenuClicks(_, _, _, _)
\* Lines 547-625, from submenu entry `index` on; c holds the fields and the
\* global counter.
SubmenuClicks(menu, c, inp, index) ==
  IF index >= Len(menu.menu_items_with_submenus) THEN c
  ELSE SubmenuClicks(menu,
         IF Clicked(inp, menu_rect(Len(menu.menu_items) + index))
         THEN ToggleSubmenu(c, index) ELSE c,
         inp, index + 1)

\* Lines 433-626: the menu bar, after the two handlers called at the top.
render_menu_items(menu, s, counter, inp) ==
  IF menu.menu_items = <<>> /\ menu.menu_items_with_submenus = <<>>
  THEN [st |-> s, counter |-> counter, fired |-> <<>>]
  ELSE LET c == SubmenuClicks(menu,
                  [st |-> [s EXCEPT !.menu_positions = MenuPositions(menu)],
                   counter |-> counter],
                  inp, 0)
       IN [st |-> c.st, counter |-> c.counter, fired |-> SimpleClicks(menu, inp, 0)]

\* ----------------------------------------------------- render_open_submenu
\* Lines 699-714: the panel hangs below its entry; without a recorded
\* position the code estimates one from the labels before it.
submenu_position(menu, s, open_index) ==
  LET menu_x == VecGet(s.menu_positions, Len(menu.menu_items) + open_index) IN
  IF IsSome(menu_x) THEN Pt(Unwrap(menu_x), TitleBarHeight)
  ELSE Pt(16 + 20 + 8 + open_index * label_width, TitleBarHeight)

\* Lines 753-778: a primary click outside the assumed submenu rectangle and
\* outside the menu bar strip closes the menus, once the counter is past the
\* recorded token.
OverlayOutsideClick(s, counter, inp, position) ==
  LET submenu_rect == RectMinSize(position.x, position.y, SubmenuRectW, SubmenuRectH) IN
  IF /\ inp.click
     /\ counter > s.last_click_id
     /\ ~Contains(submenu_rect, click_pos(inp))
     /\ ~Contains(menu_bar_rect, click_pos(inp))
  THEN [s EXCEPT !.open_submenu = None,
                 !.force_open_child_subitem = None,
                 !.child_submenu_selections = EmptyMap]
  ELSE s

\* render_open_submenu: the fields after it, the callbacks invoked and the
\* panels drawn.
render_open_submenu(menu, s, counter, inp) ==
  LET open_index == Unwrap(s.open_submenu)
      menu_item == VecGet(menu.menu_items_with_submenus, open_index)
  IN
  IF IsSome(s.open_submenu) /\ IsSome(menu_item) /\ Unwrap(menu_item).subitems /= <<>>
  THEN LET position == submenu_position(menu, s, open_index)
           d == render_submenu_overlay_static(Unwrap(menu_item), position, inp,
                  s.keyboard_navigation_active, s.force_open_child_subitem, open_index)
           a == IF d.clicked
                THEN [s EXCEPT !.open_submenu = None,
                               !.submenu_just_opened_frame = FALSE]
                ELSE s
           b == OverlayOutsideClick(a, counter, inp, position)
       IN [st |-> ResetGuard(b), fired |-> d.fired, panels |-> d.panels]
  ELSE [st |-> s, fired |-> <<>>, panels |-> {}]

\* ------------------------------------------------- the pointer positions
\* For every row of the panel of `subitems` at `position`, a position near
\* the row's right edge, seven eighths across it.
EdgePoints(subitems, position) ==
  {Pt(item_rect(subitems, position, i).x0
        + ((item_rect(subitems, position, i).x1
            - item_rect(subitems, position, i).x0) * 7) \div 8,
      item_rect(subitems, position, i).y0 + item_height \div 2) :
     i \in 0..(Len(subitems) - 1)}

RECURSIVE PanelPoints(_, _, _)
\* Sample positions for the panel of `subitems` at `position`, from row i
\* on: the centre of every row, and for a row with children a point of its
\* corridor just below the row, one just above the row, and the sample
\* positions of its child panel, whose rows are sampled near their right
\* edge as well.
PanelPoints(subitems, position, i) ==
  IF i >= Len(subitems) THEN {}
  ELSE LET r == item_rect(subitems, position, i)
           centre == Pt(r.x0 + (r.x1 - r.x0) \div 2, r.y0 + item_height \div 2)
           below == IF subitems[i + 1].children = <<>> THEN {}
                    ELSE {Pt(r.x1 + corridor_width \div 2, r.y1 + CorridorPad \div 2),
                          Pt(r.x1 + corridor_width \div 2, r.y0 - CorridorPad \div 2)}
                           \cup PanelPoints(subitems[i + 1].children, Pt(r.x1, r.y0), 0)
                           \cup EdgePoints(subitems[i + 1].children, Pt(r.x1, r.y0))
       IN {centre} \cup below \cup PanelPoints(subitems, position, i + 1)

\* The centre of every top-level entry, the sample positions of every
\* submenu's panel, a point of the title bar right of the entries and a
\* point of the window far from every menu.
Points(menu) ==
  LET n == Len(menu.menu_items)
      total == n + Len(menu.menu_items_with_submenus)
  IN {Pt(menu_rect(g).x0 + label_width \div 2, BarMinY + menu_height \div 2) :
        g \in 0..(total - 1)}
     \cup UNION {PanelPoints(menu.menu_items_with_submenus[m + 1].subitems,
                             Pt(MenuPositions(menu)[n + m + 1], TitleBarHeight), 0) :
                   m \in 0..(Len(menu.menu_items_with_submenus) - 1)}
     \cup {Pt(ScreenW - 100, TitleBarHeight \div 2), Pt(ScreenW - 100, 500)}

RECURSIVE ItemShortcuts(_, _)
\* The key combinations registered anywhere in a list of sub-items.
ItemShortcuts(subitems, i) ==
  IF i > Len(subitems) THEN {}
  ELSE (IF IsSome(subitems[i].shortcut) THEN {Unwrap(subitems[i].shortcut)} ELSE {})
       \cup ItemShortcuts(subitems[i].children, 1)
       \cup ItemShortcuts(subitems, i + 1)

Shortcuts(menu) ==
  UNION {ItemShortcuts(menu.menu_items_with_submenus[m].subitems, 1) :
           m \in 1..Len(menu.menu_items_with_submenus)}

\* What one frame's ctx holds: the navigation keys pressed, the shortcut
\* combination just pressed (if any), the pointer position (if any) and
\* whether the primary button was clicked there.
Inputs(menu) ==
  {i \in [keys : KeySets,
          shortcut : {None} \cup {Some(c) : c \in Shortcuts(menu)},
          ptr : {None} \cup {Some(q) : q \in Points(menu)},
          click : BOOLEAN] :
     i.click => IsSome(i.ptr)}

\* The click of this input lands on a top-level submenu entry.
ClicksSubmenuEntry(menu, i) ==
  \E m \in 0..(Len(menu.menu_items_with_submenus) - 1) :
    Clicked(i, menu_rect(Len(menu.menu_items) + m))

\* ------------------------------------------------------------------ state
VARIABLES
  menu,                   \* menu_items and menu_items_with_submenus
  self,                   \* the other fields of the TitleBar
  SUBMENU_CLICK_COUNTER,  \* the global counter
  pc,                     \* the step of the frame that runs next
  inp,                    \* the input of the frame being processed
  pre,                    \* the fields as they were when the frame began
  fired,                  \* the callbacks invoked so far in the frame
  panels                  \* the panels drawn in the frame

\* Two title bars of one process: they share SUBMENU_CLICK_COUNTER.
VARIABLES
  bars,                   \* the fields of each title bar
  bar_pc,                 \* where each title bar is in its click handling
  fetched,                \* the value fetch_add returned to each title bar
  click_opens             \* the tokens recorded by the click-opens, in order

\* utils/rounded_corners.rs, viewports.
VARIABLES
  APPLIED_VIEWPORTS,      \* the set behind the mutex
  ctx_data,               \* the handle stored in the egui context, per viewport
  windows,                \* the native window of each viewport, if it has one
  close_requested,        \* the viewport's close_requested() input
  native_applies,         \* calls of apply_native_rounded_corners for the
                          \* viewport since its last close request
  handles_made            \* the number of native windows created so far

\* utils/rounded_corners.rs, apply_rounded_corners.
VARIABLES
  INIT,                   \* the state of the Once
  thread_pc,              \* where each calling thread is
  calls,                  \* the calls each thread has begun
  handle_lookups,         \* executions of frame.window_handle()
  apply_attempts,         \* executions of apply_native_rounded_corners
  lookup_failed           \* the handle lookup returned Err

menu_vars == <<menu, self, SUBMENU_CLICK_COUNTER, pc, inp, pre, fired, panels>>
instance_vars == <<bars, bar_pc, fetched, click_opens>>
viewport_vars ==
  <<APPLIED_VIEWPORTS, ctx_data, windows, close_requested, native_applies, handles_made>>
once_vars ==
  <<INIT, thread_pc, calls, handle_lookups, apply_attempts, lookup_failed>>
vars == <<menu_vars, instance_vars, viewport_vars, once_vars>>

Instances == {1, 2}
ViewportIds == {1, 2}
Threads == 1..NumThreads

\* Two title bars before any click.
InstancesInit ==
  /\ bars = [b \in Instances |-> NewTitleBar]
  /\ bar_pc = [b \in Instances |-> "idle"]
  /\ fetched = [b \in Instances |-> 0]
  /\ click_opens = <<>>

\* Lines 13-14: the set starts empty; no window exists yet.
ViewportsInit ==
  /\ APPLIED_VIEWPORTS = {}
  /\ ctx_data = [v \in ViewportIds |-> None]
  /\ windows = [v \in ViewportIds |-> None]
  /\ close_requested = [v \in ViewportIds |-> FALSE]
  /\ native_applies = [v \in ViewportIds |-> 0]
  /\ handles_made = 0

\* Line 21: Once::new().
OnceInit ==
  /\ INIT = "incomplete"
  /\ thread_pc = [t \in Threads |-> "idle"]
  /\ calls = [t \in Threads |-> 0]
  /\ handle_lookups = 0
  /\ apply_attempts = 0
  /\ lookup_failed = FALSE

NoInput == [keys |-> {}, shortcut |-> None, ptr |-> None, click |-> FALSE]

Init ==
  /\ menu \in Trees
  /\ self = NewTitleBar
  /\ SUBMENU_CLICK_COUNTER = 0
  /\ pc = "begin_frame"
  /\ inp = NoInput
  /\ pre = NewTitleBar
  /\ fired = <<>>
  /\ panels = {}
  /\ InstancesInit
  /\ ViewportsInit
  /\ OnceInit

\* A frame begins with the input egui collected for it; render_menu_items
\* calls check_keyboard_shortcuts first (line 430).
CheckKeyboardShortcuts ==
  /\ pc = "begin_frame"
  /\ \E i \in Inputs(menu) :
       /\ ClicksSubmenuEntry(menu, i) => SUBMENU_CLICK_COUNTER < MaxClicks
       /\ (Pressed(i, "ArrowRight") /\ IsSome(self.selected_menu_index))
            => Unwrap(self.selected_menu_index) < MaxSelected
       /\ inp' = i
       /\ fired' = check_keyboard_shortcuts(menu, i, 0)
  /\ pre' = self
  /\ panels' = {}
  /\ pc' = "handle_keyboard_navigation"
  /\ UNCHANGED <<menu, self, SUBMENU_CLICK_COUNTER>>
  /\ UNCHANGED <<instance_vars, viewport_vars, once_vars>>

\* Line 431.
HandleKeyboardNavigation ==
  /\ pc = "handle_keyboard_navigation"
  /\ LET r == handle_keyboard_navigation(menu, self, inp) IN
       /\ self' = r.st
       /\ fired' = fired \o r.fired
  /\ pc' = "render_menu_items"
  /\ UNCHANGED <<menu, SUBMENU_CLICK_COUNTER, inp, pre, panels>>
  /\ UNCHANGED <<instance_vars, viewport_vars, once_vars>>

\* Lines 433-626.
RenderMenuItems ==
  /\ pc = "render_menu_items"
  /\ LET r == render_menu_items(menu, self, SUBMENU_CLICK_COUNTER, inp) IN
       /\ self' = r.st
       /\ SUBMENU_CLICK_COUNTER' = r.counter
       /\ fired' = fired \o r.fired
  /\ pc' = "render_open_submenu"
  /\ UNCHANGED <<menu, inp, pre, panels>>
  /\ UNCHANGED <<instance_vars, viewport_vars, once_vars>>

\* render_bar.rs calls render_open_submenu after the bar is laid out; the
\* frame ends with it.
RenderOpenSubmenu ==
  /\ pc = "render_open_submenu"
  /\ LET r == render_open_submenu(menu, self, SUBMENU_CLICK_COUNTER, inp) IN
       /\ self' = r.st
       /\ fired' = fired \o r.fired
       /\ panels' = r.panels
  /\ pc' = "frame_done"
  /\ UNCHANGED <<menu, SUBMENU_CLICK_COUNTER, inp, pre>>
  /\ UNCHANGED <<instance_vars, viewport_vars, once_vars>>

\* The frame is over: its input is gone (nothing is queued across frames);
\* only the TitleBar's fields and the global counter live on.
EndFrame ==
  /\ pc = "frame_done"
  /\ pc' = "begin_frame"
  /\ inp' = NoInput
  /\ pre' = self
  /\ fired' = <<>>
  /\ panels' = {}
  /\ UNCHANGED <<menu, self, SUBMENU_CLICK_COUNTER>>
  /\ UNCHANGED <<instance_vars, viewport_vars, once_vars>>

Next ==
  \/ CheckKeyboardShortcuts
  \/ HandleKeyboardNavigation
  \/ RenderMenuItems
  \/ RenderOpenSubmenu
  \/ EndFrame

Spec == Init /\ [][Next]_vars

\* ------------------------------------------ the trees at the edges
\* The same frame loop over the trees of EdgeTrees.  With no top-level
\* entry the subtraction at line 168 leaves the range of usize: a build
\* without overflow checks goes on with the wrapped value
\* (HandleKeyboardNavigation), a build with them panics.
InitEdge ==
  /\ menu \in EdgeTrees
  /\ self = NewTitleBar
  /\ SUBMENU_CLICK_COUNTER = 0
  /\ pc = "begin_frame"
  /\ inp = NoInput
  /\ pre = NewTitleBar
  /\ fired = <<>>
  /\ panels = {}
  /\ InstancesInit
  /\ ViewportsInit
  /\ OnceInit

\* Line 168 (306, 399) in a build with overflow checks: 'attempt to subtract
\* with overflow'.  The frame never completes.
SubtractWithOverflow ==
  /\ pc = "handle_keyboard_navigation"
  /\ navigation_overflows(menu, self, inp)
  /\ pc' = "panicked"
  /\ UNCHANGED <<menu, self, SUBMENU_CLICK_COUNTER, inp, pre, fired, panels>>
  /\ UNCHANGED <<instance_vars, viewport_vars, once_vars>>

NextEdge ==
  \/ CheckKeyboardShortcuts
  \/ HandleKeyboardNavigation
  \/ SubtractWithOverflow
  \/ RenderMenuItems
  \/ RenderOpenSubmenu
  \/ EndFrame

SpecEdge == InitEdge /\ [][NextEdge]_vars

\* ------------------------------------- two title bars, one click counter
\* AtomicUsize::fetch_add(1, Ordering::Relaxed): one indivisible step that
\* returns the previous value and stores the sum, which wraps at usize::MAX.
fetch_add_NoStore(counter) == [ret |-> counter, val |-> counter]

fetch_add(counter) ==
  [ret |-> counter, val |-> IF counter = usize_MAX THEN 0 ELSE counter + 1]

\* The single title bar of the frame loop stays as constructed.
MenuIdle ==
  /\ self = NewTitleBar
  /\ pc = "begin_frame"
  /\ inp = NoInput
  /\ pre = NewTitleBar
  /\ fired = <<>>
  /\ panels = {}

InitInstances ==
  /\ menu = TreeDeep
  /\ SUBMENU_CLICK_COUNTER = 0
  /\ MenuIdle
  /\ InstancesInit
  /\ ViewportsInit
  /\ OnceInit

\* The click-opens begun whose fetch_add has not run yet.
PendingOpens == Cardinality({b \in Instances : bar_pc[b] = "fetch_add"})

\* Lines 592-601: title bar b sees a click on the entry of submenu `index`.
\* The same entry closes; another entry opens and goes on to draw a token.
ClickEntry(b, index) ==
  /\ bar_pc[b] = "idle"
  /\ IF bars[b].open_submenu = Some(index)
     THEN /\ bars' = [bars EXCEPT ![b].open_submenu = None,
                                  ![b].submenu_just_opened_frame = FALSE]
          /\ UNCHANGED bar_pc
     ELSE /\ SUBMENU_CLICK_COUNTER + PendingOpens < MaxOpens
          /\ bars' = [bars EXCEPT ![b].open_submenu = Some(index),
                                  ![b].submenu_just_opened_frame = TRUE]
          /\ bar_pc' = [bar_pc EXCEPT ![b] = "fetch_add"]
  /\ UNCHANGED <<menu, self, SUBMENU_CLICK_COUNTER, pc, inp, pre, fired, panels>>
  /\ UNCHANGED <<fetched, click_opens, viewport_vars, once_vars>>

\* Line 603, right-hand side: the atomic read-modify-write.
FetchAdd(b) ==
  /\ bar_pc[b] = "fetch_add"
  /\ fetched' = [fetched EXCEPT ![b] = fetch_add(SUBMENU_CLICK_COUNTER).ret]
  /\ SUBMENU_CLICK_COUNTER' = fetch_add(SUBMENU_CLICK_COUNTER).val
  /\ bar_pc' = [bar_pc EXCEPT ![b] = "store"]
  /\ UNCHANGED <<menu, self, pc, inp, pre, fired, panels>>
  /\ UNCHANGED <<bars, click_opens, viewport_vars, once_vars>>

\* Line 603, the assignment to self.last_click_id.
StoreToken(b) ==
  /\ bar_pc[b] = "store"
  /\ bars' = [bars EXCEPT ![b].last_click_id = fetched[b]]
  /\ click_opens' = Append(click_opens, fetched[b])
  /\ bar_pc' = [bar_pc EXCEPT ![b] = "idle"]
  /\ UNCHANGED <<menu, self, SUBMENU_CLICK_COUNTER, pc, inp, pre, fired, panels>>
  /\ UNCHANGED <<fetched, viewport_vars, once_vars>>

NextInstances ==
  \/ \E b \in Instances :
       \E index \in 0..(Len(menu.menu_items_with_submenus) - 1) : ClickEntry(b, index)
  \/ \E b \in Instances : FetchAdd(b)
  \/ \E b \in Instances : StoreToken(b)

SpecInstances == InitInstances /\ [][NextInstances]_vars

\* ----------------------------------- apply_rounded_corners_to_viewport
InitViewports ==
  /\ menu = TreeEmpty
  /\ SUBMENU_CLICK_COUNTER = 0
  /\ MenuIdle
  /\ InstancesInit
  /\ ViewportsInit
  /\ OnceInit

\* The viewport is shown: a new native window, with a handle of its own.
OpenWindow(v) ==
  /\ windows[v] = None
  /\ handles_made < MaxWindows
  /\ handles_made' = handles_made + 1
  /\ windows' = [windows EXCEPT ![v] = Some(handles_made + 1)]
  /\ UNCHANGED <<APPLIED_VIEWPORTS, ctx_data, close_requested, native_applies>>
  /\ UNCHANGED <<menu_vars, instance_vars, once_vars>>

\* The user asks to close the viewport's window.
RequestClose(v) ==
  /\ IsSome(windows[v])
  /\ ~close_requested[v]
  /\ close_requested' = [close_requested EXCEPT ![v] = TRUE]
  /\ native_applies' = [native_applies EXCEPT ![v] = 0]
  /\ UNCHANGED <<APPLIED_VIEWPORTS, ctx_data, windows, handles_made>>
  /\ UNCHANGED <<menu_vars, instance_vars, once_vars>>

\* The window goes away.
CloseWindow(v) ==
  /\ close_requested[v]
  /\ windows' = [windows EXCEPT ![v] = None]
  /\ close_requested' = [close_requested EXCEPT ![v] = FALSE]
  /\ UNCHANGED <<APPLIED_VIEWPORTS, ctx_data, native_applies, handles_made>>
  /\ UNCHANGED <<menu_vars, instance_vars, once_vars>>

\* Lines 41-67: store_window_handle_for_viewport, with the frame of the
\* viewport's window.
StoreWindowHandleForViewport(v) ==
  /\ IsSome(windows[v])
  /\ ctx_data' = [ctx_data EXCEPT ![v] = windows[v]]
  /\ UNCHANGED <<APPLIED_VIEWPORTS, windows, close_requested, native_applies, handles_made>>
  /\ UNCHANGED <<menu_vars, instance_vars, once_vars>>

\* Lines 90-164: one call from the viewport's callback.  `found` is what
\* get_viewport_window_handle returns, r1 and r2 whether the platform call
\* succeeds on the stored and on the found handle.
ApplyRoundedCornersToViewport(v) ==
  /\ IsSome(windows[v])
  /\ native_applies[v] < MaxApplies
  /\ IF close_requested[v]
     THEN /\ APPLIED_VIEWPORTS' = APPLIED_VIEWPORTS \ {v}
          /\ ctx_data' = [ctx_data EXCEPT ![v] = None]
          /\ UNCHANGED native_applies
     ELSE \E found \in {None, windows[v]}, r1 \in BOOLEAN, r2 \in BOOLEAN :
            LET method1 == IsSome(ctx_data[v])
                handle_found1 == method1 /\ r1
                method2 == ~handle_found1 /\ IsSome(found)
                handle_found2 == method2 /\ r2
            IN /\ native_applies' =
                    [native_applies EXCEPT ![v] = @ + (IF method1 THEN 1 ELSE 0)
                                                    + (IF method2 THEN 1 ELSE 0)]
               /\ ctx_data' = IF handle_found2
                              THEN [ctx_data EXCEPT ![v] = found]
                              ELSE ctx_data
               /\ UNCHANGED APPLIED_VIEWPORTS
  /\ UNCHANGED <<windows, close_requested, handles_made>>
  /\ UNCHANGED <<menu_vars, instance_vars, once_vars>>

NextViewports ==
  \/ \E v \in ViewportIds : OpenWindow(v)
  \/ \E v \in ViewportIds : RequestClose(v)
  \/ \E v \in ViewportIds : CloseWindow(v)
  \/ \E v \in ViewportIds : StoreWindowHandleForViewport(v)
  \/ \E v \in ViewportIds : ApplyRoundedCornersToViewport(v)

SpecViewports == InitViewports /\ [][NextViewports]_vars

\* ------------------------------------------------ apply_rounded_corners
InitOnce ==
  /\ menu = TreeEmpty
  /\ SUBMENU_CLICK_COUNTER = 0
  /\ MenuIdle
  /\ InstancesInit
  /\ ViewportsInit
  /\ OnceInit

\* Once::call_once as it would be if it only tested for completion: a
\* caller that arrives while the closure runs runs it too.
call_once_Unsynchronised(init) ==
  IF init = "complete" THEN "return" ELSE "run"

\* Once::call_once: what a caller does in each state of the Once.  The first
\* caller runs the closure; a caller that arrives while it runs blocks until
\* it is done; later callers return at once.
call_once(init) ==
  IF init = "incomplete" THEN "run"
  ELSE IF init = "running" THEN "block"
  ELSE "return"

\* Lines 20-23: thread t calls apply_rounded_corners.
CallOnce(t) ==
  /\ thread_pc[t] = "idle"
  /\ calls[t] < MaxCalls
  /\ calls' = [calls EXCEPT ![t] = @ + 1]
  /\ IF call_once(INIT) = "run"
     THEN /\ INIT' = "running"
          /\ thread_pc' = [thread_pc EXCEPT ![t] = "window_handle"]
     ELSE IF call_once(INIT) = "block"
     THEN /\ thread_pc' = [thread_pc EXCEPT ![t] = "blocked"]
          /\ UNCHANGED INIT
     ELSE UNCHANGED <<INIT, thread_pc>>
  /\ UNCHANGED <<handle_lookups, apply_attempts, lookup_failed>>
  /\ UNCHANGED <<menu_vars, instance_vars, viewport_vars>>

\* Line 24: frame.window_handle(), which succeeds or fails.
WindowHandle(t) ==
  /\ thread_pc[t] = "window_handle"
  /\ handle_lookups' = handle_lookups + 1
  /\ \E ok \in BOOLEAN :
       IF ok
       THEN /\ thread_pc' = [thread_pc EXCEPT ![t] = "from_handle"]
            /\ UNCHANGED <<INIT, lookup_failed>>
       ELSE /\ thread_pc' = [thread_pc EXCEPT ![t] = "idle"]
            /\ INIT' = "complete"
            /\ lookup_failed' = TRUE
  /\ UNCHANGED <<calls, apply_attempts>>
  /\ UNCHANGED <<menu_vars, instance_vars, viewport_vars>>

\* Lines 25 and 249-284: apply_rounded_corners_from_handle.  A handle of a
\* supported kind leads to one native apply attempt; the closure ends.
ApplyRoundedCornersFromHandle(t) ==
  /\ thread_pc[t] = "from_handle"
  /\ \E supported \in BOOLEAN :
       apply_attempts' = apply_attempts + (IF supported THEN 1 ELSE 0)
  /\ thread_pc' = [thread_pc EXCEPT ![t] = "idle"]
  /\ INIT' = "complete"
  /\ UNCHANGED <<calls, handle_lookups, lookup_failed>>
  /\ UNCHANGED <<menu_vars, instance_vars, viewport_vars>>

\* A blocked caller returns once the closure has run.
Unblock(t) ==
  /\ thread_pc[t] = "blocked"
  /\ INIT = "complete"
  /\ thread_pc' = [thread_pc EXCEPT ![t] = "idle"]
  /\ UNCHANGED <<INIT, calls, handle_lookups, apply_attempts, lookup_failed>>
  /\ UNCHANGED <<menu_vars, instance_vars, viewport_vars>>

NextOnce ==
  \/ \E t \in Threads : CallOnce(t)
  \/ \E t \in Threads : WindowHandle(t)
  \/ \E t \in Threads : ApplyRoundedCornersFromHandle(t)
  \/ \E t \in Threads : Unblock(t)

SpecOnce == InitOnce /\ [][NextOnce]_vars

\* =================================================================
\* Properties
\* =================================================================

\* The frame has run to its end; pre, inp, fired and panels describe it.
Done == pc = "frame_done"
\* The frame's only input is the key k: no other key, no click, no shortcut.
OnlyKey(k) == inp.keys = {k} /\ ~inp.click /\ inp.shortcut = None
\* The frame's only input is one press of Enter or of Space.
OnlyEnterOrSpace == OnlyKey("Enter") \/ OnlyKey("Space")
\* The frame's only input is a primary click.
OnlyClick == inp.keys = {} /\ inp.click /\ inp.shortcut = None

\* The navigation state held in the fields s.
NavState(s) ==
  [keyboard_navigation_active |-> s.keyboard_navigation_active,
   selected_menu_index |-> s.selected_menu_index,
   open_submenu |-> s.open_submenu,
   submenu_selections |-> s.submenu_selections,
   force_open_child_subitem |-> s.force_open_child_subitem,
   child_submenu_selections |-> s.child_submenu_selections]
Nav(kna, smi, open, sels, force, csels) ==
  [keyboard_navigation_active |-> kna,
   selected_menu_index |-> smi,
   open_submenu |-> open,
   submenu_selections |-> sels,
   force_open_child_subitem |-> force,
   child_submenu_selections |-> csels]
\* The map {k -> v}.
One(k, v) == [x \in {k} |-> v]

\* No level is open: no submenu, no forced-open child, no child selection.
NothingOpen(s) ==
  /\ s.open_submenu = None
  /\ s.force_open_child_subitem = None
  /\ s.child_submenu_selections = EmptyMap

RECURSIVE ItemIn(_, _, _)
\* The sub-item a path names, from position k of the path on.
ItemIn(subitems, path, k) ==
  IF k = Len(path) THEN subitems[path[k] + 1]
  ELSE ItemIn(subitems[path[k] + 1].children, path, k + 1)
\* The sub-item at path <<m, i, ...>>.
ItemAt(path) == ItemIn(menu.menu_items_with_submenus[path[1] + 1].subitems, path, 2)

\* The sub-item selected at depth 1 in the fields s (a submenu is open and
\* has a selection).
HasSelectedItem(s) ==
  /\ IsSome(s.open_submenu)
  /\ Unwrap(s.open_submenu) \in DOMAIN s.submenu_selections
  /\ s.submenu_selections[Unwrap(s.open_submenu)]
       < Len(menu.menu_items_with_submenus[Unwrap(s.open_submenu) + 1].subitems)
SelectedItem(s) ==
  ItemAt(<<Unwrap(s.open_submenu), s.submenu_selections[Unwrap(s.open_submenu)]>>)

\* ----------------------------------------------------------------- C1
\* The states of the keyboard scenario on the File tree.
ScenarioInactive == Nav(FALSE, None, None, EmptyMap, None, EmptyMap)
ScenarioTop == Nav(TRUE, Some(0), None, EmptyMap, None, EmptyMap)
ScenarioNew == Nav(TRUE, Some(0), Some(0), One(0, 0), None, EmptyMap)
ScenarioRecent == Nav(TRUE, Some(0), Some(0), One(0, 1), None, EmptyMap)
ScenarioATxt == Nav(TRUE, Some(0), Some(0), One(0, 1), Some(1), One(0, 0))
ScenarioClosed == Nav(TRUE, Some(0), None, One(0, 1), None, EmptyMap)

\* C1: on the File tree, one key per frame: Alt selects top-level entry 0 in
\* keyboard mode; Enter opens File with New selected; ArrowDown selects
\* Recent; ArrowRight opens Recent's child panel with A.txt selected; Enter
\* invokes A.txt's callback exactly once, leaves nothing open and keyboard
\* mode active.
C1_Scenario ==
  (Done /\ menu = TreeFile) =>
    /\ (NavState(pre) = ScenarioInactive /\ OnlyKey("Alt"))
         => NavState(self) = ScenarioTop /\ fired = <<>>
    /\ (NavState(pre) = ScenarioTop /\ OnlyKey("Enter"))
         => NavState(self) = ScenarioNew /\ fired = <<>>
    /\ (NavState(pre) = ScenarioNew /\ OnlyKey("ArrowDown"))
         => NavState(self) = ScenarioRecent /\ fired = <<>>
    /\ (NavState(pre) = ScenarioRecent /\ OnlyKey("ArrowRight"))
         => NavState(self) = ScenarioATxt /\ fired = <<>>
    /\ (NavState(pre) = ScenarioATxt /\ OnlyKey("Enter"))
         => /\ NavState(self) = ScenarioClosed
            /\ fired = << Call("nav", FALSE, <<0, 1, 0>>) >>

\* The last step of the scenario has run.
C1_Witness ==
  /\ Done /\ menu = TreeFile
  /\ NavState(pre) = ScenarioATxt /\ OnlyKey("Enter")
  /\ fired = << Call("nav", FALSE, <<0, 1, 0>>) >>

\* ----------------------------------------------------------------- C2
\* In the fields s a submenu is open in keyboard mode with a depth-1 row
\* selected and no child panel open.
AtDepth1(s) ==
  /\ s.keyboard_navigation_active
  /\ HasSelectedItem(s)
  /\ s.force_open_child_subitem = None
  /\ Unwrap(s.open_submenu) \notin DOMAIN s.child_submenu_selections
\* In the fields s the child panel of the selected depth-1 row is open in
\* keyboard mode, with a child row selected.
AtDepth2(s) ==
  /\ s.keyboard_navigation_active
  /\ HasSelectedItem(s)
  /\ s.force_open_child_subitem = Some(s.submenu_selections[Unwrap(s.open_submenu)])
  /\ SelectedItem(s).children /= <<>>
  /\ Unwrap(s.open_submenu) \in DOMAIN s.child_submenu_selections
  /\ s.child_submenu_selections[Unwrap(s.open_submenu)] < Len(SelectedItem(s).children)
\* The child row selected at depth 2.
SelectedChild(s) ==
  SelectedItem(s).children[s.child_submenu_selections[Unwrap(s.open_submenu)] + 1]

\* C2 (as claimed): Enter or Space on an enabled depth-1 row k with children
\* opens that row's child panel with child 0 selected, keeps the depth-1
\* selection on k and invokes no callback; a later Enter on child 0, an
\* enabled leaf, invokes its callback and leaves no submenu open.
C2_Original ==
  (Done /\ OnlyEnterOrSpace) =>
    /\ (AtDepth1(pre) /\ SelectedItem(pre).children /= <<>> /\ SelectedItem(pre).enabled)
         => /\ self.open_submenu = pre.open_submenu
            /\ self.submenu_selections = pre.submenu_selections
            /\ self.force_open_child_subitem
                 = Some(pre.submenu_selections[Unwrap(pre.open_submenu)])
            /\ MapGet(self.child_submenu_selections, Unwrap(pre.open_submenu)) = Some(0)
            /\ fired = <<>>
    /\ (/\ AtDepth2(pre)
        /\ pre.child_submenu_selections[Unwrap(pre.open_submenu)] = 0
        /\ SelectedChild(pre).enabled
        /\ SelectedChild(pre).children = <<>>)
         => /\ self.open_submenu = None
            /\ fired = Invoke(SelectedChild(pre).callback, "nav", FALSE,
                              <<Unwrap(pre.open_submenu),
                                pre.submenu_selections[Unwrap(pre.open_submenu)], 0>>)

\* ----------------------------------------------------------------- C3
\* A leaf sub-item was activated in this frame, by Enter / Space or by a
\* click on its row.
LeafActivated ==
  \E k \in DOMAIN fired :
    /\ fired[k].by \in {"nav", "click"}
    /\ ~fired[k].simple
    /\ ItemAt(fired[k].path).children = <<>>

\* C3 (as claimed): a frame whose only input activates a leaf ends with no
\* level open at all (no open submenu, no forced-open child, no child-level
\* selection) and with the keyboard-mode flag as it was.
C3_Original ==
  (Done /\ (OnlyEnterOrSpace \/ OnlyClick) /\ LeafActivated) =>
    /\ NothingOpen(self)
    /\ self.keyboard_navigation_active = pre.keyboard_navigation_active

\* ----------------------------------------------------------------- C4
\* In the fields s keyboard mode is active, nothing is open and the selected
\* top-level entry is a submenu entry with at least one sub-item.
AtTopSubmenu(s) ==
  /\ s.keyboard_navigation_active
  /\ s.open_submenu = None
  /\ IsSome(s.selected_menu_index)
  /\ Unwrap(s.selected_menu_index) >= Len(menu.menu_items)
  /\ Unwrap(s.selected_menu_index)
       < Len(menu.menu_items) + Len(menu.menu_items_with_submenus)
  /\ menu.menu_items_with_submenus[
        Unwrap(s.selected_menu_index) - Len(menu.menu_items) + 1].subitems /= <<>>
\* The submenu index of the selected top-level entry and its first sub-item.
TopSubmenu(s) == Unwrap(s.selected_menu_index) - Len(menu.menu_items)
FirstItem(s) == menu.menu_items_with_submenus[TopSubmenu(s) + 1].subitems[1]

AtTopSimple(s) ==
  /\ s.keyboard_navigation_active
  /\ s.open_submenu = None
  /\ IsSome(s.selected_menu_index)
  /\ Unwrap(s.selected_menu_index) < Len(menu.menu_items)
\* The callback invocation Enter makes on the selected simple entry.
SimpleCall(s) ==
  Invoke(menu.menu_items[Unwrap(s.selected_menu_index) + 1].callback, "nav", TRUE,
         <<Unwrap(s.selected_menu_index)>>)

\* C5 (as claimed): Enter or Space on a selected simple entry invokes its
\* callback (if any) and returns to Inactive: keyboard mode off, no top-level
\* entry selected.
C5_Original ==
  (Done /\ OnlyEnterOrSpace /\ AtTopSimple(pre)) =>
    /\ fired = SimpleCall(pre)
    /\ ~self.keyboard_navigation_active
    /\ self.selected_menu_index = None

\* C5 (amended): Enter or Space on a selected simple entry invokes its
\* callback (if any) and leaves the navigation state as it was: keyboard
\* mode stays active, the same top-level entry stays selected and nothing is
\* open.
C5_Amended ==
  (Done /\ OnlyEnterOrSpace /\ AtTopSimple(pre)) =>
    /\ fired = SimpleCall(pre)
    /\ NavState(self) = NavState(pre)

\* Enter or Space has invoked the callback of a selected simple entry.
C5_Witness ==
  /\ Done /\ OnlyEnterOrSpace /\ AtTopSimple(pre)
  /\ fired /= <<>>

\* ----------------------------------------------------------------- C6
\* handle_keyboard_navigation has just run and made a submenu the open one.
NavOpenedSubmenu ==
  /\ pc = "render_menu_items"
  /\ IsSome(self.open_submenu)
  /\ self.open_submenu /= pre.open_submenu

\* C6: a frame in which keyboard navigation opens a top-level submenu is a
\* frame in which keyboard navigation invokes no callback: one Enter / Space
\* press never both opens a submenu and activates an item.
C6_OpenDoesNotActivate ==
  NavOpenedSubmenu => \A k \in DOMAIN fired : fired[k].by /= "nav"

\* Enter or Space has opened a submenu from the keyboard.
C6_Witness ==
  /\ NavOpenedSubmenu
  /\ EnterOrSpace(inp)
  /\ pre.keyboard_navigation_active

\* ----------------------------------------------------------------- C7
\* C7: the callback of a disabled sub-item is never invoked, by any step of
\* any frame: not by a click on its row, not by Enter / Space while it is
\* selected, not by its shortcut.
C7_DisabledNeverInvoked ==
  \A k \in DOMAIN fired : ~fired[k].simple => ItemAt(fired[k].path).enabled

\* Enter or Space was pressed with a disabled leaf that has a callback as
\* the selected depth-1 row.
C7_Witness ==
  /\ Done /\ OnlyEnterOrSpace /\ AtDepth1(pre)
  /\ ~SelectedItem(pre).enabled
  /\ SelectedItem(pre).callback
  /\ SelectedItem(pre).children = <<>>

\* ----------------------------------------------------------------- C8
\* C8 (as claimed): the callback of an item that has children is never
\* invoked by activation (Enter / Space or click), at any depth.
C8_Original ==
  \A k \in DOMAIN fired :
    (fired[k].by \in {"nav", "click"} /\ ~fired[k].simple)
      => ItemAt(fired[k].path).children = <<>>

\* ----------------------------------------------------------------- C9
\* C9 (as claimed): a top-level submenu entry whose enabled flag is false is
\* never the open submenu.
C9_Original ==
  IsSome(self.open_submenu)
    => menu.menu_items_with_submenus[Unwrap(self.open_submenu) + 1].enabled

\* ----------------------------------------------------------------- C10
\* C10 (as claimed): the child panel of a disabled sub-item is never drawn.
C10_Original ==
  \A q \in panels : Len(q) >= 2 => ItemAt(q).enabled

\* ----------------------------------------------------------------- C11
\* C11: in keyboard mode with a submenu open (at depth 1 or with a child
\* panel open as well), a frame whose input is Escape ends with keyboard
\* mode off, no top-level entry selected, no submenu open and no panel drawn.
C11_EscapeLeavesInactive ==
  (Done /\ OnlyKey("Escape") /\ pre.keyboard_navigation_active
        /\ IsSome(pre.open_submenu)) =>
    /\ ~self.keyboard_navigation_active
    /\ self.selected_menu_index = None
    /\ self.open_submenu = None
    /\ panels = {}

\* Escape was pressed with a child panel open below the open submenu.
C11_Witness ==
  /\ Done /\ OnlyKey("Escape") /\ AtDepth2(pre)
  /\ ~self.keyboard_navigation_active

\* ----------------------------------------------------------------- C12
\* The number of top-level entries, simple and submenu-bearing together.
TotalMenus == Len(menu.menu_items) + Len(menu.menu_items_with_submenus)
\* In the fields s keyboard mode is active, top-level entry i is selected and
\* no submenu is open.
AtTop(s, i) ==
  /\ s.keyboard_navigation_active
  /\ s.selected_menu_index = Some(i)
  /\ s.open_submenu = None
Min(a, b) == IF a < b THEN a ELSE b
Max(a, b) == IF a > b THEN a ELSE b

\* C12: with N >= 1 top-level entries, keyboard mode active and no submenu
\* open, one ArrowRight moves the selected top-level index from i to
\* min(i + 1, N - 1), so N - 1 presses from index 0 select N - 1 and a further
\* press leaves it there; one ArrowLeft moves it from i to max(i - 1, 0), so
\* at index 0 it stays 0.  Nothing opens and keyboard mode stays active.
C12_TopLevelClamped ==
  (Done /\ TotalMenus >= 1) =>
    \A i \in 0..(TotalMenus - 1) :
      /\ (AtTop(pre, i) /\ OnlyKey("ArrowRight"))
           => AtTop(self, Min(i + 1, TotalMenus - 1))
      /\ (AtTop(pre, i) /\ OnlyKey("ArrowLeft"))
           => AtTop(self, Max(i - 1, 0))

\* With three top-level entries, ArrowRight was pressed at the last one and
\* the selection stayed on it.
C12_Witness ==
  /\ Done /\ TotalMenus = 3 /\ OnlyKey("ArrowRight")
  /\ AtTop(pre, 2) /\ AtTop(self, 2)

\* ----------------------------------------------------------------- C13
\* In the fields s a submenu is open in keyboard mode and the child panel of
\* its row c is the forced-open one and has a selection.
ChildPanelOpen(s, c) ==
  /\ s.keyboard_navigation_active
  /\ IsSome(s.open_submenu)
  /\ s.force_open_child_subitem = Some(c)
  /\ c < Len(menu.menu_items_with_submenus[Unwrap(s.open_submenu) + 1].subitems)
  /\ ItemAt(<<Unwrap(s.open_submenu), c>>).children /= <<>>
  /\ Unwrap(s.open_submenu) \in DOMAIN s.child_submenu_selections
\* In the fields s a submenu is open in keyboard mode with a depth-1 row
\* selected and no child panel forced open.
NoChildPanelOpen(s) ==
  /\ s.keyboard_navigation_active
  /\ HasSelectedItem(s)
  /\ s.force_open_child_subitem = None
\* The number of rows of the open submenu, and of the child panel of row c.
OpenRows(s) == Len(menu.menu_items_with_submenus[Unwrap(s.open_submenu) + 1].subitems)
ChildRows(s, c) == Len(ItemAt(<<Unwrap(s.open_submenu), c>>).children)
\* The depth-1 and the child-level selection of the open submenu.
Sel1(s) == s.submenu_selections[Unwrap(s.open_submenu)]
Sel2(s) == s.child_submenu_selections[Unwrap(s.open_submenu)]

\* C13 (as claimed): in keyboard mode with a submenu open, ArrowDown
\* (ArrowUp) moves the selected index of the deepest open level from k to
\* min(k + 1, n - 1) (max(k - 1, 0)): the child-level index while a child
\* panel is open, the depth-1 index while none is.
C13_Original ==
  Done =>
    /\ (OnlyKey("ArrowDown") /\ NoChildPanelOpen(pre))
         => /\ HasSelectedItem(self)
            /\ Sel1(self) = Min(Sel1(pre) + 1, OpenRows(pre) - 1)
    /\ (OnlyKey("ArrowUp") /\ NoChildPanelOpen(pre))
         => /\ HasSelectedItem(self)
            /\ Sel1(self) = Max(Sel1(pre) - 1, 0)
    /\ \A c \in 0..2 :
         /\ (OnlyKey("ArrowDown") /\ ChildPanelOpen(pre, c))
              => /\ ChildPanelOpen(self, c)
                 /\ Sel2(self) = Min(Sel2(pre) + 1, ChildRows(pre, c) - 1)
         /\ (OnlyKey("ArrowUp") /\ ChildPanelOpen(pre, c))
              => /\ ChildPanelOpen(self, c)
                 /\ Sel2(self) = Max(Sel2(pre) - 1, 0)

\* ----------------------------------------------------------------- C14
\* C14 (as claimed): in keyboard mode, with a depth-1 row that has children
\* selected and no child panel open, ArrowRight opens that row's child panel
\* with child index 0 selected and leaves the selected top-level index, the
\* open submenu and the depth-1 selection as they were.
C14_Original ==
  (Done /\ OnlyKey("ArrowRight") /\ NoChildPanelOpen(pre)
        /\ SelectedItem(pre).children /= <<>>) =>
    /\ self.force_open_child_subitem = Some(Sel1(pre))
    /\ MapGet(self.child_submenu_selections, Unwrap(pre.open_submenu)) = Some(0)
    /\ self.selected_menu_index = pre.selected_menu_index
    /\ self.open_submenu = pre.open_submenu
    /\ self.submenu_selections = pre.submenu_selections
    /\ self.keyboard_navigation_active

\* ----------------------------------------------------------------- C15
\* C15 (as claimed): in keyboard mode with a child panel open, ArrowLeft
\* closes exactly the innermost level: no child is forced open and the open
\* submenu has no child-level selection, while the submenu stays open with
\* the same depth-1 selection and the same top-level index.  With a submenu
\* open and no child panel open, ArrowLeft at top-level index 0 closes the
\* submenu and keeps index 0 selected in keyboard mode.
C15_Original ==
  (Done /\ OnlyKey("ArrowLeft")) =>
    /\ AtDepth2(pre)
         => /\ self.force_open_child_subitem = None
            /\ Unwrap(pre.open_submenu) \notin DOMAIN self.child_submenu_selections
            /\ self.open_submenu = pre.open_submenu
            /\ self.submenu_selections = pre.submenu_selections
            /\ self.selected_menu_index = pre.selected_menu_index
            /\ self.keyboard_navigation_active
    /\ (NoChildPanelOpen(pre) /\ pre.selected_menu_index = Some(0))
         => /\ self.open_submenu = None
            /\ self.selected_menu_index = Some(0)
            /\ self.keyboard_navigation_active

\* ----------------------------------------------------------------- C16
\* In the fields s a submenu is open in keyboard mode, its selected depth-1
\* row has no children and top-level entry i is selected.
AtLeafRow(s, i) ==
  /\ s.keyboard_navigation_active
  /\ HasSelectedItem(s)
  /\ SelectedItem(s).children = <<>>
  /\ s.selected_menu_index = Some(i)

\* C16: in keyboard mode with a submenu open whose selected depth-1 row has
\* no children, ArrowRight with top-level index i < N - 1 selects i + 1 and
\* ArrowLeft with i > 0 selects i - 1, and no submenu is open (and no panel
\* drawn) at the end of the frame; keyboard mode stays active.
C16_LeafRowArrowsMoveTopLevel ==
  Done =>
    \A i \in 0..(TotalMenus - 1) :
      /\ (OnlyKey("ArrowRight") /\ AtLeafRow(pre, i) /\ i < TotalMenus - 1)
           => AtTop(self, i + 1) /\ panels = {}
      /\ (OnlyKey("ArrowLeft") /\ AtLeafRow(pre, i) /\ i > 0)
           => AtTop(self, i - 1) /\ panels = {}

\* ArrowRight was pressed on a leaf row of the open submenu of top-level
\* entry 0, with another top-level entry to its right.
C16_Witness ==
  /\ Done /\ OnlyKey("ArrowRight") /\ AtLeafRow(pre, 0)
  /\ pre.open_submenu = Some(0) /\ TotalMenus > 1
  /\ AtTop(self, 1)

\* ----------------------------------------------------------------- C17
\* The frame's only input is Alt held or Ctrl+F2 pressed.
OnlyActivation == OnlyKey("Alt") \/ OnlyKey("CtrlF2")

\* C17 (as claimed): with keyboard mode inactive, a frame with Alt held or
\* Ctrl+F2 pressed ends with keyboard mode active, top-level index 0 selected
\* and no submenu open; with keyboard mode already active it changes neither
\* the selected top-level index nor the open path.
C17_Original ==
  (Done /\ OnlyActivation) =>
    /\ ~pre.keyboard_navigation_active => AtTop(self, 0)
    /\ pre.keyboard_navigation_active => NavState(self) = NavState(pre)

\* ----------------------------------------------------------------- C18
\* C18: keyboard mode is switched off only by Escape: every step that takes
\* the keyboard-mode flag from active to inactive belongs to a frame in which
\* Escape was pressed; no click, activation, arrow key or hover turns it off.
C18_OnlyEscapeDeactivates ==
  [][(self.keyboard_navigation_active /\ ~self'.keyboard_navigation_active)
       => Pressed(inp, "Escape")]_vars

\* Keyboard mode was active when the frame began and is off at its end.
C18_Witness ==
  /\ Done
  /\ pre.keyboard_navigation_active
  /\ ~self.keyboard_navigation_active
  /\ Pressed(inp, "Escape")

\* ----------------------------------------------------------------- C19
\* The rectangles of the panels that are open in the fields s: the panel of
\* the open submenu and, in keyboard mode, the child panel of the forced-open
\* row.
OpenPanelRects(s) ==
  IF ~IsSome(s.open_submenu) THEN {}
  ELSE LET o == Unwrap(s.open_submenu)
           subitems == menu.menu_items_with_submenus[o + 1].subitems
           position == submenu_position(menu, s, o)
           c == s.force_open_child_subitem
       IN {adjusted_rect(subitems, position)}
          \cup (IF s.keyboard_navigation_active /\ IsSome(c)
                   /\ Unwrap(c) < Len(subitems)
                   /\ subitems[Unwrap(c) + 1].children /= <<>>
                THEN LET r == item_rect(subitems, position, Unwrap(c)) IN
                     {adjusted_rect(subitems[Unwrap(c) + 1].children, Pt(r.x1, r.y0))}
                ELSE {})
\* The position p lies in an open panel of the fields s.
InsideOpenPanel(s, p) == \E r \in OpenPanelRects(s) : Contains(r, p)
\* The frame's input is a primary click outside the menu bar strip and
\* outside every panel that was open when the frame began.
OutsideClick ==
  /\ OnlyClick
  /\ ~Contains(menu_bar_rect, click_pos(inp))
  /\ ~InsideOpenPanel(pre, click_pos(inp))

\* C19: in keyboard mode with a submenu open, a primary click outside the
\* menu bar and outside all open panels closes every level (no submenu open,
\* no forced-open child, no child-level selection), keeps keyboard mode
\* active and leaves the selected top-level index as it was; no callback is
\* invoked.
C19_OutsideClickClosesAll ==
  (Done /\ OutsideClick /\ pre.keyboard_navigation_active /\ IsSome(pre.open_submenu)) =>
    /\ NothingOpen(self)
    /\ self.keyboard_navigation_active
    /\ self.selected_menu_index = pre.selected_menu_index
    /\ fired = <<>>

\* An outside click came while a child panel was open in keyboard mode.
C19_Witness ==
  /\ Done /\ OutsideClick /\ AtDepth2(pre)
  /\ NothingOpen(self)

\* ----------------------------------------------------------------- C20
\* C20 (as claimed): in keyboard mode the outside-click rule of the
\* navigation handler does not close the open submenu on a primary click
\* whose position lies inside an open panel below the menu bar.
C20_Original ==
  (/\ pc = "render_menu_items"
   /\ OnlyClick
   /\ pre.keyboard_navigation_active
   /\ IsSome(pre.open_submenu)
   /\ InsideOpenPanel(pre, click_pos(inp))
   /\ ~Contains(menu_bar_rect, click_pos(inp)))
    => self.open_submenu = pre.open_submenu

\* ----------------------------------------------------------------- C21
RECURSIVE PanelOf(_)
\* The rows and the position of the panel a path names (<<m>> the panel of
\* submenu m, <<m, i>> the child panel of its row i, and so on), as the
\* overlay lays them out in this frame.
PanelOf(path) ==
  IF Len(path) = 1
  THEN [subitems |-> menu.menu_items_with_submenus[path[1] + 1].subitems,
        position |-> submenu_position(menu, self, path[1])]
  ELSE LET p == PanelOf(SubSeq(path, 1, Len(path) - 1))
           i == path[Len(path)]
           r == item_rect(p.subitems, p.position, i)
       IN [subitems |-> p.subitems[i + 1].children, position |-> Pt(r.x1, r.y0)]
\* The rectangle of that panel.
PanelRect(path) == adjusted_rect(PanelOf(path).subitems, PanelOf(path).position)
\* The position p lies in a panel drawn in this frame.
InsideDrawnPanel(p) == \E q \in panels : Contains(PanelRect(q), p)
\* The frame's input is a primary click on the entry of submenu m, which was
\* not the open submenu when the frame began.
ClickOnClosedTrigger(m) ==
  /\ OnlyClick
  /\ Clicked(inp, menu_rect(Len(menu.menu_items) + m))
  /\ pre.open_submenu /= Some(m)
\* The frame's input is a primary click outside the menu bar strip, outside
\* the panels open when the frame began and outside every panel drawn in it.
ClickOutsideEverything ==
  /\ OutsideClick
  /\ ~InsideDrawnPanel(click_pos(inp))

\* C21 (as claimed): the click that opens a top-level submenu never closes
\* it: at the end of the frame of a click on a closed submenu entry that
\* submenu is open; and a later, separate primary click outside the menu bar
\* and outside the submenu closes it.
C21_Original ==
  Done =>
    /\ \A m \in 0..(Len(menu.menu_items_with_submenus) - 1) :
         ClickOnClosedTrigger(m) => self.open_submenu = Some(m)
    /\ (IsSome(pre.open_submenu) /\ ClickOutsideEverything)
         => self.open_submenu = None

\* ----------------------------------------------------------------- C22
\* The menu bar has just handled a click that opened a closed submenu; the
\* overlay, with its outside-click check, runs next.
ClickJustOpened ==
  /\ pc = "render_open_submenu"
  /\ \E m \in 0..(Len(menu.menu_items_with_submenus) - 1) :
       ClickOnClosedTrigger(m) /\ self.open_submenu = Some(m)

\* C22 (as claimed): right after a click has opened a submenu, the
\* outside-click check of the same frame reads a global counter equal to the
\* recorded token, so the comparison "counter has advanced past the token"
\* is false and by itself prevents the close.
C22_Original ==
  ClickJustOpened =>
    /\ SUBMENU_CLICK_COUNTER = self.last_click_id
    /\ ~(SUBMENU_CLICK_COUNTER > self.last_click_id)

\* ----------------------------------------------------------------- C23
\* The frame's input is a primary click on the entry of submenu m.
ClickOnTrigger(m) ==
  OnlyClick /\ Clicked(inp, menu_rect(Len(menu.menu_items) + m))

\* C23: a click on a top-level submenu entry toggles it in the step that
\* draws the menu bar: if that submenu is the open one it becomes closed and
\* the global counter and the recorded token stay as they were; otherwise it
\* becomes the open submenu and the global counter grows by exactly 1.
C23_ClickToggles ==
  [][\A m \in 0..(Len(menu.menu_items_with_submenus) - 1) :
       (pc = "render_menu_items" /\ ClickOnTrigger(m)) =>
         IF self.open_submenu = Some(m)
         THEN /\ self'.open_submenu = None
              /\ SUBMENU_CLICK_COUNTER' = SUBMENU_CLICK_COUNTER
              /\ self'.last_click_id = self.last_click_id
         ELSE /\ self'.open_submenu = Some(m)
              /\ SUBMENU_CLICK_COUNTER' = SUBMENU_CLICK_COUNTER + 1]_vars

\* A click on the entry of the open submenu has closed it, after an earlier
\* click had opened it.
C23_Witness ==
  /\ Done /\ SUBMENU_CLICK_COUNTER > 0
  /\ \E m \in 0..(Len(menu.menu_items_with_submenus) - 1) :
       ClickOnTrigger(m) /\ pre.open_submenu = Some(m) /\ self.open_submenu = None

\* ----------------------------------------------------------------- C24
\* The click of this frame lands on a row, of a panel drawn in this frame,
\* that is an enabled leaf.
ClickActivatesLeaf ==
  \E q \in panels :
    \E i \in 0..(Len(PanelOf(q).subitems) - 1) :
      /\ Clicked(inp, item_rect(PanelOf(q).subitems, PanelOf(q).position, i))
      /\ PanelOf(q).subitems[i + 1].enabled
      /\ PanelOf(q).subitems[i + 1].children = <<>>

\* C24 (as claimed): in mouse mode with a submenu open, a primary click
\* inside the rectangle of the open panel or of an open child panel that
\* does not land on an enabled leaf leaves the submenu open.
C24_Original ==
  (/\ Done /\ OnlyClick
   /\ ~pre.keyboard_navigation_active
   /\ IsSome(pre.open_submenu)
   /\ InsideDrawnPanel(click_pos(inp))
   /\ ~ClickActivatesLeaf)
    => self.open_submenu = pre.open_submenu

\* ----------------------------------------------------------------- C25
RECURSIVE PathsBelow(_, _)
\* The paths of all items of a list of sub-items, nested children included;
\* `prefix` is the path of the list's owner.
PathsBelow(subitems, prefix) ==
  UNION {{Append(prefix, i - 1)}
           \cup PathsBelow(subitems[i].children, Append(prefix, i - 1)) :
         i \in 1..Len(subitems)}
\* The paths of all items of the tree.
ItemPaths ==
  UNION {PathsBelow(menu.menu_items_with_submenus[m].subitems, <<m - 1>>) :
         m \in 1..Len(menu.menu_items_with_submenus)}

\* C25 (as claimed): in every frame, for every enabled leaf at any depth of
\* the tree that has a callback and a shortcut whose combination was just
\* pressed, that item's callback is invoked by the shortcut dispatch,
\* whatever is open and whatever the input mode.
C25_Original ==
  (pc /= "begin_frame" /\ IsSome(inp.shortcut)) =>
    \A q \in ItemPaths :
      (/\ ItemAt(q).shortcut = inp.shortcut
       /\ ItemAt(q).enabled
       /\ ItemAt(q).children = <<>>
       /\ ItemAt(q).callback)
        => \E k \in DOMAIN fired : fired[k] = Call("shortcut", FALSE, q)

\* ----------------------------------------------------------------- C26
\* C26 (as claimed): in every frame, over shortcut dispatch, Enter / Space
\* navigation, clicks on simple top-level entries and clicks on submenu rows
\* together, at most one callback is invoked.
C26_Original == Len(fired) <= 1

\* ----------------------------------------------------------------- C27
\* The rectangle of row i of the panel a path names.
RowRect(q, i) == item_rect(PanelOf(q).subitems, PanelOf(q).position, i)
\* The pointer is over row i of panel q, or in the strip from the row's
\* right edge to corridor_width right of it and from CorridorPad above its
\* top to CorridorPad below its bottom, or inside the rectangle of the row's
\* child panel.
PointerKeepsChildOpen(q, i) ==
  /\ IsSome(inp.ptr)
  /\ LET p == Unwrap(inp.ptr)
         r == RowRect(q, i)
     IN \/ Contains(r, p)
        \/ /\ r.x1 <= p.x /\ p.x <= r.x1 + corridor_width
           /\ r.y0 - CorridorPad <= p.y /\ p.y <= r.y1 + CorridorPad
        \/ Contains(PanelRect(Append(q, i)), p)
\* Row i of submenu m is enabled and has children.
EnabledParentRow(m, i) ==
  /\ i < Len(menu.menu_items_with_submenus[m + 1].subitems)
  /\ ItemAt(<<m, i>>).enabled
  /\ ItemAt(<<m, i>>).children /= <<>>

\* C27: in mouse mode, in a frame that draws the panel of submenu m, the
\* child panel of an enabled depth-1 row with children is drawn if and only
\* if the pointer is over the row, in its corridor or inside the child
\* panel's rectangle.
C27_HoverOpensChild ==
  (Done /\ ~self.keyboard_navigation_active) =>
    \A m \in 0..(Len(menu.menu_items_with_submenus) - 1) :
      \A i \in 0..2 :
        (<<m>> \in panels /\ EnabledParentRow(m, i))
          => (<<m, i>> \in panels <=> PointerKeepsChildOpen(<<m>>, i))

\* In mouse mode a child panel is drawn while the pointer is in the padded
\* part of the corridor, above the row and outside the child panel.
C27_Witness ==
  /\ Done /\ ~self.keyboard_navigation_active
  /\ \E m \in 0..(Len(menu.menu_items_with_submenus) - 1) :
       \E i \in 0..2 :
         /\ <<m>> \in panels /\ EnabledParentRow(m, i)
         /\ <<m, i>> \in panels
         /\ Unwrap(inp.ptr).y < RowRect(<<m>>, i).y0
         /\ Unwrap(inp.ptr).x > RowRect(<<m>>, i).x1
         /\ Unwrap(inp.ptr).x <= RowRect(<<m>>, i).x1 + corridor_width

\* ----------------------------------------------------------------- C28
\* The paths of the items at depth 3 that have children of their own parent
\* chain enabled: <<m, i, j>> names row j of the child panel of row i of
\* submenu m, and both rows can be opened by hover.
HoverChains ==
  {q \in ItemPaths :
     /\ Len(q) = 3
     /\ ItemAt(SubSeq(q, 1, 2)).enabled
     /\ ItemAt(q).enabled
     /\ ItemAt(q).children /= <<>>}

\* C28 (as claimed): while the pointer lies inside the depth-3 panel of row
\* <<m, i, j>> or in that row's corridor, in a frame that draws the panel of
\* submenu m, every panel on the path is drawn: the depth-2 panel <<m, i>>
\* and the depth-3 panel itself.
C28_Original ==
  Done =>
    \A q \in HoverChains :
      (/\ <<q[1]>> \in panels
       /\ IsSome(inp.ptr)
       /\ LET p == Unwrap(inp.ptr)
              r == RowRect(SubSeq(q, 1, 2), q[3])
          IN \/ Contains(PanelRect(q), p)
             \/ /\ r.x1 <= p.x /\ p.x <= r.x1 + corridor_width
                /\ r.y0 - CorridorPad <= p.y /\ p.y <= r.y1 + CorridorPad)
        => /\ SubSeq(q, 1, 2) \in panels
           /\ q \in panels

C30_Original ==
  (self.keyboard_navigation_active /\ IsSome(self.open_submenu)) =>
    self.selected_menu_index = Some(Len(menu.menu_items) + Unwrap(self.open_submenu))

\* ----------------------------------------------------------------- C31
\* C31 (as claimed): at the end of every frame, if no top-level submenu is
\* open then no child item is recorded as forced open and no child-level
\* selection is recorded; and if no child panel is forced open then no
\* child-level selection is recorded for the open submenu.
C31_Original ==
  Done =>
    /\ self.open_submenu = None
         => /\ self.force_open_child_subitem = None
            /\ self.child_submenu_selections = EmptyMap
    /\ (IsSome(self.open_submenu) /\ self.force_open_child_subitem = None)
         => Unwrap(self.open_submenu) \notin DOMAIN self.child_submenu_selections

\* ----------------------------------------------------------------- C32
\* C32 (as claimed): at the end of every frame every recorded index is valid:
\* the selected top-level index is below the number of top-level entries; the
\* depth-1 selection of the open submenu is below its number of rows; the
\* forced-open child index names a row of the open submenu that has children;
\* the child-level selection is below the number of children of that row.
C32_Original ==
  Done =>
    /\ IsSome(self.selected_menu_index)
         => Unwrap(self.selected_menu_index) < TotalMenus
    /\ (IsSome(self.open_submenu)
          /\ Unwrap(self.open_submenu) \in DOMAIN self.submenu_selections)
         => Sel1(self) < OpenRows(self)
    /\ (IsSome(self.open_submenu) /\ IsSome(self.force_open_child_subitem))
         => /\ Unwrap(self.force_open_child_subitem) < OpenRows(self)
            /\ ChildRows(self, Unwrap(self.force_open_child_subitem)) > 0
    /\ (IsSome(self.open_submenu) /\ IsSome(self.force_open_child_subitem)
          /\ Unwrap(self.open_submenu) \in DOMAIN self.child_submenu_selections
          /\ Unwrap(self.force_open_child_subitem) < OpenRows(self))
         => Sel2(self) < ChildRows(self, Unwrap(self.force_open_child_subitem))

\* ----------------------------------------------------------------- C34
\* C34 (as claimed): a frame whose only input is Escape, begun with a
\* submenu open, ends with no submenu open, whether the submenu was opened
\* from the keyboard or by a click while keyboard mode is inactive.
C34_Original ==
  (Done /\ OnlyKey("Escape") /\ IsSome(pre.open_submenu))
    => self.open_submenu = None

\* ----------------------------------------------------------------- C38
\* C38 (as claimed): with a submenu open, a frame whose only input is a
\* primary click on the row of an enabled leaf of the open panel invokes that
\* leaf's callback exactly once, with keyboard mode inactive and with it
\* active.
C38_Original ==
  (Done /\ OnlyClick /\ IsSome(pre.open_submenu)) =>
    \A i \in 0..(OpenRows(pre) - 1) :
      (/\ ItemAt(<<Unwrap(pre.open_submenu), i>>).enabled
       /\ ItemAt(<<Unwrap(pre.open_submenu), i>>).children = <<>>
       /\ ItemAt(<<Unwrap(pre.open_submenu), i>>).callback
       /\ Clicked(inp, RowRect(<<Unwrap(pre.open_submenu)>>, i)))
      => fired = << Call("click", FALSE, <<Unwrap(pre.open_submenu), i>>) >>

\* ----------------------------------------------------------------- C39
\* C39 (as claimed): a frame whose only input is Enter or Space, begun in
\* keyboard mode on a disabled row (the selected row of the open submenu, or
\* the selected row of its open child panel), leaves the open submenu, the
\* depth-1 selection, the forced-open child item and the child-level
\* selection as they were.
C39_Original ==
  (Done /\ OnlyEnterOrSpace) =>
    /\ (AtDepth1(pre) /\ ~SelectedItem(pre).enabled)
         => NavState(self) = NavState(pre)
    /\ (AtDepth2(pre) /\ ~SelectedChild(pre).enabled)
         => NavState(self) = NavState(pre)

\* ----------------------------------------------------------------- C37
\* C37 (as claimed): for every tree shape, the tree without top-level
\* entries and the submenu without sub-items included, keyboard navigation
\* never evaluates 'total top-level count - 1', 'sub-item count - 1' or
\* 'children count - 1' with a count of 0: no frame reaches such a
\* subtraction, and none panics on it.
C37_Original ==
  /\ pc = "handle_keyboard_navigation" => ~navigation_overflows(menu, self, inp)
  /\ pc /= "panicked"

\* ----------------------------------------------------------------- C33
\* An enabled row without children and without a callback.
QuietLeaf(item) == item.enabled /\ item.children = <<>> /\ ~item.callback
\* C33: a frame whose only input activates an enabled leaf that has no
\* callback (Enter or Space on the selected depth-1 row or on the selected
\* row of the open child panel, or a primary click on the row of such a leaf
\* in the open panel or in the child panel of an enabled row) invokes no
\* callback and ends with no submenu open.
C33_QuietLeafCloses ==
  Done =>
    /\ (OnlyEnterOrSpace /\ AtDepth1(pre) /\ QuietLeaf(SelectedItem(pre)))
         => (fired = <<>> /\ self.open_submenu = None)
    /\ (OnlyEnterOrSpace /\ AtDepth2(pre) /\ QuietLeaf(SelectedChild(pre)))
         => (fired = <<>> /\ self.open_submenu = None)
    /\ (OnlyClick /\ IsSome(pre.open_submenu)) =>
         LET m == Unwrap(pre.open_submenu) IN
         \A i \in 0..(OpenRows(pre) - 1) :
           /\ (QuietLeaf(ItemAt(<<m, i>>)) /\ Clicked(inp, RowRect(<<m>>, i)))
                => (fired = <<>> /\ self.open_submenu = None)
           /\ \A j \in 0..(ChildRows(pre, i) - 1) :
                (/\ ItemAt(<<m, i>>).enabled
                 /\ QuietLeaf(ItemAt(<<m, i, j>>))
                 /\ Clicked(inp, RowRect(<<m, i>>, j)))
                => (fired = <<>> /\ self.open_submenu = None)
\* A frame in which Enter or Space lands on the selected row of the open
\* child panel, an enabled leaf without a callback: nothing is invoked and
\* nothing is left open.
C33_Witness ==
  /\ Done
  /\ OnlyEnterOrSpace
  /\ AtDepth2(pre)
  /\ QuietLeaf(SelectedChild(pre))
  /\ fired = <<>>
  /\ self.open_submenu = None

\* ----------------------------------------------------------------- C35
\* C35 (as claimed): between two close requests of a viewport (and before
\* the first), the calls of apply_rounded_corners_to_viewport for it perform
\* the native apply operation at most once.
C35_Original == \A v \in ViewportIds : native_applies[v] <= 1

\* ----------------------------------------------------------------- C36
\* The set of the tokens recorded so far.
RecordedTokens == {click_opens[k] : k \in DOMAIN click_opens}
\* C36: under every interleaving of the click-opens of two title bars the
\* counter equals the number of click-opens whose fetch_add has run (so it
\* never decreases and ends increased by exactly their number), and the
\* tokens recorded, and those fetched but not yet recorded, are pairwise
\* distinct.
C36_CounterCountsOpens ==
  LET storing == {b \in Instances : bar_pc[b] = "store"} IN
  /\ SUBMENU_CLICK_COUNTER = Len(click_opens) + Cardinality(storing)
  /\ Cardinality(RecordedTokens) = Len(click_opens)
  /\ \A b \in storing : fetched[b] \notin RecordedTokens
  /\ \A b \in storing : \A c \in storing : fetched[b] = fetched[c] => b = c
\* Both title bars have drawn a token before either stored its own, and a
\* third click-open has been recorded since: three click-opens, three tokens.
C36_Witness ==
  /\ Len(click_opens) = 3
  /\ SUBMENU_CLICK_COUNTER = 3
  /\ click_opens[1] > click_opens[2]
  /\ bars[1].last_click_id /= bars[2].last_click_id

\* ----------------------------------------------------------------- C40
\* C40: however many threads call apply_rounded_corners and however often,
\* the window-handle lookup runs at most once and the native apply is
\* attempted at most once; once the lookup has failed the Once is complete
\* and no apply is ever attempted.
C40_LookupAtMostOnce ==
  /\ handle_lookups <= 1
  /\ apply_attempts <= 1
  /\ lookup_failed => (INIT = "complete" /\ apply_attempts = 0 /\ handle_lookups = 1)
\* The first call's lookup failed, and every thread has called again since
\* (one of them had to wait for the first call): still one lookup.
C40_Witness ==
  /\ lookup_failed
  /\ handle_lookups = 1
  /\ \A t \in Threads : calls[t] = MaxCalls /\ thread_pc[t] = "idle"

====
